---- MODULE Spec2Model ----
(***************************************************************************)
(* Model of the voicepeak-api HTTP server: the speaker-id space built over *)
(* the catalog of the external binary, the translation of the two request  *)
(* shapes into invocations of the binary, and the error mapping of the     *)
(* handlers, for the inline handlers of app/index.js and for the           *)
(* refactored routers (app/routes/*.js with app/utils/*.js).               *)
(*                                                                         *)
(* Strings are sequences of one-character strings, so that trim, includes  *)
(* and concatenation are computed and not assumed.  Error messages are     *)
(* sequences of tokens; a token stands for the Japanese phrase the code    *)
(* searches for with String.includes:                                      *)
(*   RateLimit = リクエスト制限      Text = テキスト                       *)
(*   NarratorName = ナレーター名     Emotion = 感情                        *)
(*   Numeric = 数値   Speed = スピード   Pitch = ピッチ                    *)
(*   DisallowedChars = 許可されていない文字   IllegalChars = 不正な文字    *)
(*   FilePath = ファイルパス   Speaker = スピーカー                        *)
(*   NoAudioFile = 音声ファイルが生成されませんでした                      *)
(***************************************************************************)
EXTENDS Integers, Sequences, FiniteSets, TLC

VARIABLES impl, listNarrator, listEmotion, rateLimiter, now, uuidNext, disk,
          phase, req, resp, run, accepted, check, env, voiceVoxAdapter, remote,
          proc, jobs, files, held

vars == <<impl, listNarrator, listEmotion, rateLimiter, now, uuidNext, disk,
          phase, req, resp, run, accepted, check, env, voiceVoxAdapter, remote,
          proc, jobs, files, held>>

\* the state of the parts that are exercised on their own and that no request
\* handler touches
quietVars == <<check, env, voiceVoxAdapter, remote, proc, jobs, files, held>>

(***************************************************************************)
(* Strings                                                                 *)
(***************************************************************************)
IsSpace(c) == c = " "

RECURSIVE TrimStart(_)
TrimStart(s) ==
    IF s = <<>> THEN <<>>
    ELSE IF IsSpace(Head(s)) THEN TrimStart(Tail(s)) ELSE s

RECURSIVE TrimEnd(_)
TrimEnd(s) ==
    IF s = <<>> THEN <<>>
    ELSE IF IsSpace(s[Len(s)]) THEN TrimEnd(SubSeq(s, 1, Len(s) - 1)) ELSE s

\* String.prototype.trim
Trim(s) == TrimEnd(TrimStart(s))

\* String.prototype.includes for a one-character (or one-token) needle
Includes(s, c) == \E i \in 1..Len(s) : s[i] = c

RECURSIVE Join(_)
\* Array.prototype.join('') of a sequence of strings
Join(ss) == IF ss = <<>> THEN <<>> ELSE Head(ss) \o Join(Tail(ss))

(***************************************************************************)
(* Program constants (config/constants.js)                                 *)
(***************************************************************************)
BASE_SPEAKER_ID == 2041348160
SPEED_MIN == 50
SPEED_MAX == 200
SPEED_DEFAULT == 100
PITCH_MIN == -50
PITCH_MAX == 50
PITCH_DEFAULT == 0
MAX_LENGTH == 1000
MAX_NARRATOR_LENGTH == 50
\* CONFIG.AUDIO_PARAMS.EMOTION_DEFAULT_VALUE = 50, as the suffix "=50"
EMOTION_DEFAULT_VALUE == <<"5", "0">>
\* CONFIG.DEFAULTS.EMOTION = 'honwaka'
DEFAULT_EMOTION == <<"h", "o", "n", "w", "a", "k", "a">>
\* CONFIG.DEFAULTS.NARRATOR = 'Miyamai Moca'
DEFAULT_NARRATOR == <<"M", "i", "y", "a", "m", "a", "i", " ", "M", "o", "c", "a">>
\* the style label "通常" of the synthetic style, romanised
DEFAULT_STYLE_LABEL == <<"t", "s", "u", "j", "o">>
\* the banner substring 'UserApplication', one token inside a line
NOISE == "UserApplication"

(***************************************************************************)
(* The external binary: one fixed answer per listing command.              *)
(* An answer is [kind, out, err]: kind "ok" (exit code 0), "exit"          *)
(* (non-zero exit code), "spawn" (spawn error) or "timeout"; out is stdout *)
(* as its sequence of lines, err the tokens of stderr.                     *)
(***************************************************************************)
ExecAnswer(kind, out, err) == [kind |-> kind, out |-> out, err |-> err]

IsBlank(line) == Trim(line) = <<>>

RECURSIVE DropLeadingBlank(_)
DropLeadingBlank(lines) ==
    IF lines = <<>> THEN <<>>
    ELSE IF IsBlank(Head(lines)) THEN DropLeadingBlank(Tail(lines)) ELSE lines

RECURSIVE DropTrailingBlank(_)
DropTrailingBlank(lines) ==
    IF lines = <<>> THEN <<>>
    ELSE IF IsBlank(lines[Len(lines)])
         THEN DropTrailingBlank(SubSeq(lines, 1, Len(lines) - 1))
         ELSE lines

\* stdout.trim() on a text kept as lines: blank lines at both ends go, the
\* first line loses its leading and the last line its trailing whitespace
StdoutTrim(lines) ==
    LET l1 == DropTrailingBlank(DropLeadingBlank(lines))
    IN  IF l1 = <<>> THEN <<>>
        ELSE LET l2 == <<TrimStart(Head(l1))>> \o Tail(l1)
                 n  == Len(l2)
             IN  SubSeq(l2, 1, n - 1) \o <<TrimEnd(l2[n])>>

\* SecurityUtils.safeExec: resolves with the trimmed stdout on exit code 0,
\* rejects with an Error otherwise
safeExec(answer) ==
    CASE answer.kind = "ok" ->
            [ok |-> TRUE, value |-> StdoutTrim(answer.out), message |-> <<>>]
      [] answer.kind = "exit" ->
            [ok |-> FALSE, value |-> <<>>,
             message |-> <<"CommandError">> \o answer.err]
      [] answer.kind = "spawn" ->
            [ok |-> FALSE, value |-> <<>>, message |-> <<"CommandFailed">>]
      [] OTHER ->
            [ok |-> FALSE, value |-> <<>>, message |-> <<"CommandTimeout">>]

KeepLine(line) == ~IsBlank(line) /\ ~Includes(line, NOISE)

\* result.split('\n').filter(line => line.trim() && !line.includes('UserApplication'))
ParseLines(value) == SelectSeq(value, KeepLine)

\* what the binary answers to --list-emotion <narrator>; a narrator it does
\* not know makes it exit non-zero
EmotionAnswer(narrator) ==
    IF narrator \in DOMAIN listEmotion THEN listEmotion[narrator]
    ELSE ExecAnswer("exit", <<>>, <<>>)

(***************************************************************************)
(* Identity space builder (GET /speakers)                                  *)
(***************************************************************************)
\* the styles numbered from one past the counter (index taken one-based)
StylesOfOneBased(emotions, baseId) ==
    [i \in 1..Len(emotions) |-> [name |-> emotions[i], id |-> baseId + i]]

\* emotions.map((emotion, index) => ({name: emotion, id: baseId + index}))
StylesOf(emotions, baseId) ==
    [i \in 1..Len(emotions) |-> [name |-> emotions[i], id |-> baseId + (i - 1)]]

RECURSIVE SpeakersLoop(_, _)
\* the for-loop leaving out the narrator whose emotion listing fails
SpeakersLoopSkipping(narrators, baseId) ==
    IF narrators = <<>> THEN <<>>
    ELSE LET narrator == Head(narrators)
             emotionResult == safeExec(EmotionAnswer(narrator))
         IN  IF emotionResult.ok
             THEN LET emotions == ParseLines(emotionResult.value)
                  IN  <<[name |-> narrator, styles |-> StylesOf(emotions, baseId)]>>
                      \o SpeakersLoop(Tail(narrators), baseId + Len(emotions))
             ELSE SpeakersLoop(Tail(narrators), baseId)

\* the for-loop of SpeakerIdUtils.generateVoiceVoxSpeakersList
SpeakersLoop(narrators, baseId) ==
    IF narrators = <<>> THEN <<>>
    ELSE LET narrator == Head(narrators)
             emotionResult == safeExec(EmotionAnswer(narrator))
         IN  IF emotionResult.ok
             THEN LET emotions == ParseLines(emotionResult.value)
                  IN  <<[name |-> narrator, styles |-> StylesOf(emotions, baseId)]>>
                      \o SpeakersLoop(Tail(narrators), baseId + Len(emotions))
             ELSE <<[name |-> narrator,
                     styles |-> <<[name |-> DEFAULT_STYLE_LABEL, id |-> baseId]>>]>>
                  \o SpeakersLoop(Tail(narrators), baseId + 1)

\* SpeakerIdUtils.generateVoiceVoxSpeakersList: the speakers, or the error of
\* --list-narrator rethrown
generateVoiceVoxSpeakersList ==
    LET result == safeExec(listNarrator)
    IN  IF ~result.ok
        THEN [ok |-> FALSE, speakers |-> <<>>, message |-> result.message]
        ELSE [ok |-> TRUE, message |-> <<>>,
              speakers |-> SpeakersLoop(ParseLines(result.value), BASE_SPEAKER_ID)]

RECURSIVE InlineSpeakersLoop(_, _)
\* the for-loop of app.get('/speakers') in index.js
InlineSpeakersLoop(narrators, baseId) ==
    IF narrators = <<>> THEN <<>>
    ELSE LET narrator == Head(narrators)
             emotionResult == safeExec(EmotionAnswer(narrator))
         IN  IF emotionResult.ok
             THEN LET emotions == ParseLines(emotionResult.value)
                  IN  <<[name |-> narrator, styles |-> StylesOf(emotions, baseId)]>>
                      \o InlineSpeakersLoop(Tail(narrators), baseId + Len(emotions))
             ELSE <<[name |-> narrator,
                     styles |-> <<[name |-> DEFAULT_STYLE_LABEL, id |-> baseId]>>]>>
                  \o InlineSpeakersLoop(Tail(narrators), baseId + 1)

(***************************************************************************)
(* Identity resolver                                                       *)
(***************************************************************************)
NotFound == [found |-> FALSE, narrator |-> <<>>, emotion |-> <<>>]
Found(narrator, emotion) == [found |-> TRUE, narrator |-> narrator, emotion |-> emotion]

\* the inner for-loop over the emotions of one narrator: the match, or the
\* counter after the last emotion
RECURSIVE EmotionWalk(_, _, _, _)
\* the inner loop with the comparison currentId >= styleId
EmotionWalkAtLeast(narrator, emotions, currentId, styleId) ==
    IF emotions = <<>> THEN [hit |-> NotFound, currentId |-> currentId]
    ELSE IF currentId >= styleId
         THEN [hit |-> Found(narrator, Head(emotions)), currentId |-> currentId]
         ELSE EmotionWalk(narrator, Tail(emotions), currentId + 1, styleId)

EmotionWalk(narrator, emotions, currentId, styleId) ==
    IF emotions = <<>> THEN [hit |-> NotFound, currentId |-> currentId]
    ELSE IF currentId = styleId
         THEN [hit |-> Found(narrator, Head(emotions)), currentId |-> currentId]
         ELSE EmotionWalk(narrator, Tail(emotions), currentId + 1, styleId)

RECURSIVE NarratorWalk(_, _, _)
\* the outer loop with no counter value kept for a narrator whose emotion
\* listing fails and is not the one asked for
NarratorWalkNoReserve(narrators, currentId, styleId) ==
    IF narrators = <<>> THEN NotFound
    ELSE LET narrator == Head(narrators)
             emotionResult == safeExec(EmotionAnswer(narrator))
         IN  IF emotionResult.ok
             THEN LET w == EmotionWalk(narrator, ParseLines(emotionResult.value),
                                       currentId, styleId)
                  IN  IF w.hit.found THEN w.hit
                      ELSE NarratorWalk(Tail(narrators), w.currentId, styleId)
             ELSE IF currentId = styleId
                  THEN Found(narrator, DEFAULT_EMOTION)
                  ELSE NarratorWalk(Tail(narrators), currentId, styleId)

\* the outer for-loop of SpeakerIdUtils.findNarratorByStyleId
NarratorWalk(narrators, currentId, styleId) ==
    IF narrators = <<>> THEN NotFound
    ELSE LET narrator == Head(narrators)
             emotionResult == safeExec(EmotionAnswer(narrator))
         IN  IF emotionResult.ok
             THEN LET w == EmotionWalk(narrator, ParseLines(emotionResult.value),
                                       currentId, styleId)
                  IN  IF w.hit.found THEN w.hit
                      ELSE NarratorWalk(Tail(narrators), w.currentId, styleId)
             ELSE IF currentId = styleId
                  THEN Found(narrator, DEFAULT_EMOTION)
                  ELSE NarratorWalk(Tail(narrators), currentId + 1, styleId)

\* SpeakerIdUtils.findNarratorByStyleId: every error ends in the sentinel
findNarratorByStyleId(styleId) ==
    LET narratorResult == safeExec(listNarrator)
    IN  IF ~narratorResult.ok THEN NotFound
        ELSE NarratorWalk(ParseLines(narratorResult.value), BASE_SPEAKER_ID, styleId)

RECURSIVE InlineNarratorWalk(_, _, _)
\* the outer for-loop of findNarratorByStyleId in index.js
InlineNarratorWalk(narrators, currentId, styleId) ==
    IF narrators = <<>> THEN NotFound
    ELSE LET narrator == Head(narrators)
             emotionResult == safeExec(EmotionAnswer(narrator))
         IN  IF emotionResult.ok
             THEN LET w == EmotionWalk(narrator, ParseLines(emotionResult.value),
                                       currentId, styleId)
                  IN  IF w.hit.found THEN w.hit
                      ELSE InlineNarratorWalk(Tail(narrators), w.currentId, styleId)
             ELSE IF currentId = styleId
                  THEN Found(narrator, <<"h", "o", "n", "w", "a", "k", "a">>)
                  ELSE InlineNarratorWalk(Tail(narrators), currentId + 1, styleId)

\* findNarratorByStyleId of index.js
InlineFindNarratorByStyleId(styleId) ==
    LET result == safeExec(listNarrator)
    IN  IF ~result.ok THEN NotFound
        ELSE InlineNarratorWalk(ParseLines(result.value), 2041348160, styleId)

(***************************************************************************)
(* JSON values of a request: [t, n, s], t "absent", "null", "num" or "str",*)
(* n the number of a "num", s the characters of a "str"                    *)
(***************************************************************************)
Absent == [t |-> "absent", n |-> 0, s |-> <<>>]
Null == [t |-> "null", n |-> 0, s |-> <<>>]
Num(n) == [t |-> "num", n |-> n, s |-> <<>>]
Str(s) == [t |-> "str", n |-> 0, s |-> s]

\* the value is truthy (JavaScript): a non-zero number or a non-empty string
Truthy(val) ==
    \/ val.t = "num" /\ val.n # 0
    \/ val.t = "str" /\ val.s # <<>>

\* the speaker of the query string is there: a query parameter is a string,
\* Num(n) stands for the decimal numeral of n (truthy, "0" included) and
\* Str(s) for any other text
QueryGiven(val) == val.t = "num" \/ (val.t = "str" /\ val.s # <<>>)

\* destructuring default: `name = dflt` applies to undefined only
WithDefault(val, dflt) == IF val.t = "absent" THEN dflt ELSE val

\* num / den cut to the integer below
MathFloor(num, den) == num \div den

\* Math.round(num / den) for den > 0: halves go up
MathRound(num, den) == (2 * num + den) \div (2 * den)

(***************************************************************************)
(* SecurityUtils validators (security.js)                                  *)
(***************************************************************************)
Ok(value) == [ok |-> TRUE, value |-> value, message |-> <<>>]
Throw(message) == [ok |-> FALSE, value |-> <<>>, message |-> message]

\* PATTERNS.DANGEROUS_CHARS; BACKTICK and BACKSLASH name those two characters
DANGEROUS_CHARS == {"BACKTICK", "$", "BACKSLASH", ";", "&", "|", "<", ">"}
\* PATTERNS.CONTROL_CHARS, two of its characters by name
CONTROL_CHARS == {"TAB", "LF"}
\* letters and digits of the requests and catalogs of this model
LETTERS == {"a", "b", "c", "f", "h", "i", "j", "k", "m", "n", "o", "s", "t",
            "u", "w", "y", "A", "B", "M"}
DIGITS == {"0", "1", "2", "3", "4", "5", "6", "7", "8", "9"}

\* SecurityUtils.checkForDangerousContent; '<' is dangerous before it can
\* open a tag, so the HTML test never decides; "javascript:" is one token
checkForDangerousContent(text, context) ==
    IF \E i \in 1..Len(text) : text[i] \in DANGEROUS_CHARS
    THEN Throw(<<context, "IllegalChars", "Contained">>)
    ELSE IF \E i \in 1..Len(text) : text[i] \in CONTROL_CHARS
    THEN Throw(<<context, "ControlChars", "Contained">>)
    ELSE IF Includes(text, "javascript:")
    THEN Throw(<<context, "JavaScript", "Contained">>)
    ELSE Ok(text)

\* SecurityUtils.validateText; text is a JSON value
validateText(text) ==
    IF ~Truthy(text) \/ text.t # "str" THEN Throw(<<"Text", "Invalid">>)
    ELSE LET trimmedText == Trim(text.s)
         IN  IF Len(trimmedText) = 0 THEN Throw(<<"Text", "Empty">>)
             ELSE IF Len(trimmedText) > MAX_LENGTH THEN Throw(<<"Text", "TooLong">>)
             ELSE checkForDangerousContent(trimmedText, "Text")

\* PATTERNS.NARRATOR: letters, digits, whitespace, '-' and '_'
NarratorChar(c) == c \in LETTERS \cup DIGITS \cup {" ", "-", "_"}

\* SecurityUtils.validateNarrator
validateNarrator(narrator) ==
    IF ~Truthy(narrator) \/ narrator.t # "str" THEN Throw(<<"NarratorName", "Invalid">>)
    ELSE IF ~(\A i \in 1..Len(narrator.s) : NarratorChar(narrator.s[i]))
    THEN Throw(<<"NarratorName", "DisallowedChars", "Contained">>)
    ELSE IF Len(narrator.s) > MAX_NARRATOR_LENGTH
    THEN Throw(<<"NarratorName", "TooLong">>)
    ELSE Ok(Trim(narrator.s))

\* PATTERNS.EMOTION = /^[a-zA-Z][a-zA-Z0-9_]*(?:=[0-9]+)?$/
EmotionPattern(e) ==
    /\ Len(e) >= 1
    /\ e[1] \in LETTERS
    /\ \E k \in 1..Len(e) :
          /\ \A i \in 2..k : e[i] \in LETTERS \cup DIGITS \cup {"_"}
          /\ \/ k = Len(e)
             \/ /\ k + 2 <= Len(e)
                /\ e[k + 1] = "="
                /\ \A i \in (k + 2)..Len(e) : e[i] \in DIGITS

\* SecurityUtils.validateEmotion
validateEmotion(emotion) ==
    IF ~Truthy(emotion) \/ emotion.t # "str" THEN Throw(<<"Emotion", "Invalid">>)
    ELSE IF ~EmotionPattern(emotion.s) THEN Throw(<<"Emotion", "Format", "Invalid">>)
    ELSE Ok(Trim(emotion.s))

\* the range test with both bounds required to fail at once
validateNumericParamBothBounds(value, min, max, paramName) ==
    IF value.t \in {"null", "absent"} THEN Throw(<<paramName, "NotSpecified">>)
    ELSE IF value.t # "num" THEN Throw(<<paramName, "Numeric", "Required">>)
    ELSE IF value.n < min /\ value.n > max THEN Throw(<<paramName, "OutOfRange">>)
    ELSE Ok(value.n)

\* SecurityUtils.validateNumericParam for a JSON number, null or undefined
validateNumericParam(value, min, max, paramName) ==
    IF value.t \in {"null", "absent"} THEN Throw(<<paramName, "NotSpecified">>)
    ELSE IF value.t # "num" THEN Throw(<<paramName, "Numeric", "Required">>)
    ELSE IF value.n < min \/ value.n > max THEN Throw(<<paramName, "OutOfRange">>)
    ELSE Ok(value.n)

\* SecurityUtils.validateFilePath for path.join(tempDir, `${outputId}.wav`):
\* a path is <<directory, file id>>
validateFilePath(filePath, allowedDir) ==
    IF Head(filePath) # allowedDir THEN Throw(<<"IllegalFilePath">>)
    ELSE Ok(filePath)

\* the limiter counting the request it rejects
checkRateLimitCounting(ip, maxRequests, windowMs) ==
    LET windowStart == now - windowMs
        requests == rateLimiter[ip]
        InWindow(time) == time > windowStart
        validRequests == SelectSeq(requests, InWindow)
    IN  [ok |-> Len(validRequests) < maxRequests,
         message |-> IF Len(validRequests) >= maxRequests
                     THEN <<"RateLimit", "Reached", "RetryLater">> ELSE <<>>,
         limiter |-> [rateLimiter EXCEPT ![ip] = Append(validRequests, now)]]

\* the limiter with a request made exactly windowMs earlier still counted
checkRateLimitInclusive(ip, maxRequests, windowMs) ==
    LET windowStart == now - windowMs
        requests == rateLimiter[ip]
        InWindow(time) == time >= windowStart
        validRequests == SelectSeq(requests, InWindow)
    IN  IF Len(validRequests) >= maxRequests
        THEN [ok |-> FALSE, limiter |-> rateLimiter,
              message |-> <<"RateLimit", "Reached", "RetryLater">>]
        ELSE [ok |-> TRUE, message |-> <<>>,
              limiter |-> [rateLimiter EXCEPT ![ip] = Append(validRequests, now)]]

\* SecurityUtils.checkRateLimit: the stored timestamps after the call, or the
\* rate-limit Error with the store as it was
checkRateLimit(ip, maxRequests, windowMs) ==
    LET windowStart == now - windowMs
        requests == rateLimiter[ip]
        InWindow(time) == time > windowStart
        validRequests == SelectSeq(requests, InWindow)
    IN  IF Len(validRequests) >= maxRequests
        THEN [ok |-> FALSE, limiter |-> rateLimiter,
              message |-> <<"RateLimit", "Reached", "RetryLater">>]
        ELSE [ok |-> TRUE, message |-> <<>>,
              limiter |-> [rateLimiter EXCEPT ![ip] = Append(validRequests, now)]]

\* SpeakerIdUtils.validateSpeakerId: parseInt of the query parameter
validateSpeakerId(speakerId) ==
    IF speakerId.t # "num" \/ speakerId.n < 0
    THEN Throw(<<"Valid", "Speaker", "IdRequired">>)
    ELSE Ok(speakerId.n)

\* SpeakerIdUtils.formatEmotionParameter
formatEmotionParameter(emotion) ==
    IF emotion = <<>> THEN DEFAULT_EMOTION \o <<"=">> \o EMOTION_DEFAULT_VALUE
    ELSE IF Includes(emotion, "=") THEN emotion
    ELSE emotion \o <<"=">> \o EMOTION_DEFAULT_VALUE

(***************************************************************************)
(* Responses.  msg names the message text of the source:                   *)
(*   rate_limit_reached リクエスト制限に達しました                         *)
(*   invalid_text 無効なテキストです    invalid_narrator 無効なナレーター名です *)
(*   invalid_emotion 無効な感情パラメータです                              *)
(*   invalid_numeric 無効な数値パラメータです                              *)
(*   disallowed_chars 許可されていない文字が含まれています                 *)
(*   file_path_error ファイルパスエラーが発生しました                      *)
(*   no_output_produced Voicepeakが音声ファイルを生成できませんでした。... *)
(*   synthesis_failed 音声ファイルの生成に失敗しました                     *)
(*   internal_error 内部サーバーエラーが発生しました                       *)
(*   speaker_not_found 指定されたスピーカーIDが見つかりません              *)
(*   invalid_speaker 無効なスピーカーIDです                                *)
(*   valid_speaker_required 有効なスピーカーIDを指定してください           *)
(*   speed_range スピードは50から200の間である必要があります               *)
(*   pitch_range ピッチは-50から50の間である必要があります                 *)
(***************************************************************************)
NoBody == [kind |-> "error"]

\* res.status(statusCode).json({detail: [{loc, msg, type}]})
ErrorReply(statusCode, loc, msg, type) ==
    [status |-> statusCode, loc |-> loc, msg |-> msg, type |-> type, body |-> NoBody]

\* res.json(data) / res.send(buffer): status 200
SuccessReply(body) ==
    [status |-> 200, loc |-> <<>>, msg |-> "", type |-> "", body |-> body]

\* ResponseFormatter.createErrorResponse: loc is [location, field]
createErrorResponse(statusCode, location, field, message, type) ==
    ErrorReply(statusCode, <<location, field>>, message, type)

\* ResponseFormatter.handleValidationError
handleValidationError(message) ==
    IF Includes(message, "RateLimit")
    THEN createErrorResponse(429, "request", "", "rate_limit_reached", "rate_limit")
    ELSE IF Includes(message, "Text")
    THEN createErrorResponse(422, "body", "text", "invalid_text", "value_error")
    ELSE IF Includes(message, "NarratorName")
    THEN createErrorResponse(422, "body", "narrator", "invalid_narrator", "value_error")
    ELSE IF Includes(message, "Emotion")
    THEN createErrorResponse(422, "body", "emotion", "invalid_emotion", "value_error")
    ELSE IF Includes(message, "Numeric") \/ Includes(message, "Speed")
            \/ Includes(message, "Pitch")
    THEN createErrorResponse(422, "body", "speed", "invalid_numeric", "value_error")
    ELSE IF Includes(message, "DisallowedChars") \/ Includes(message, "IllegalChars")
    THEN createErrorResponse(422, "body", "text", "disallowed_chars", "value_error")
    ELSE IF Includes(message, "FilePath")
    THEN createErrorResponse(500, "internal", "", "file_path_error", "internal_error")
    ELSE IF Includes(message, "NoAudioFile")
    THEN createErrorResponse(500, "synthesis", "", "no_output_produced", "synthesis_error")
    ELSE createErrorResponse(500, "internal", "", "internal_error", "internal_error")

\* ResponseFormatter.createVoiceVoxCompatibilityError
createVoiceVoxCompatibilityError(message) ==
    IF Includes(message, "RateLimit")
    THEN createErrorResponse(429, "request", "", "rate_limit_reached", "rate_limit")
    ELSE IF Includes(message, "Speaker")
    THEN createErrorResponse(422, "body", "speaker", "invalid_speaker", "value_error")
    ELSE handleValidationError(message)

\* the answer of Express to an error passed on by a middleware when the
\* application registers no error handler: the status of the error and an
\* HTML page
DefaultErrorReply(statusCode) ==
    [status |-> statusCode, loc |-> <<>>, msg |-> "", type |-> "",
     body |-> [kind |-> "html"]]

RateLimitReply == ErrorReply(429, <<"request">>, "rate_limit_reached", "rate_limit")

\* catch of app.get('/api/narrators') in index.js
InlineNarratorsCatch(message) ==
    IF Includes(message, "RateLimit") THEN RateLimitReply
    ELSE ErrorReply(500, <<"narrators">>, "narrators_failed", "internal_error")

\* catch of app.get('/api/emotions') in index.js
InlineEmotionsCatch(message) ==
    IF Includes(message, "RateLimit") THEN RateLimitReply
    ELSE ErrorReply(500, <<"emotions">>, "emotions_failed", "internal_error")

\* catch of app.get('/api/emotions/:narrator') in index.js
InlineEmotionsForCatch(message) ==
    IF Includes(message, "RateLimit") THEN RateLimitReply
    ELSE IF Includes(message, "NarratorName")
    THEN ErrorReply(422, <<"path", "narrator">>, "invalid_narrator", "value_error")
    ELSE IF Includes(message, "DisallowedChars")
    THEN ErrorReply(422, <<"path", "narrator">>, "disallowed_chars", "value_error")
    ELSE ErrorReply(500, <<"emotions">>, "emotions_failed", "internal_error")

\* catch of app.post('/api/synthesize') in index.js: statusCode starts at 422
\* and only the last branch sets 500
InlineSynthesizeCatch(message) ==
    IF Includes(message, "RateLimit") THEN RateLimitReply
    ELSE IF Includes(message, "Text")
    THEN ErrorReply(422, <<"body", "text">>, "invalid_text", "value_error")
    ELSE IF Includes(message, "NarratorName")
    THEN ErrorReply(422, <<"body", "narrator">>, "invalid_narrator", "value_error")
    ELSE IF Includes(message, "Emotion")
    THEN ErrorReply(422, <<"body", "emotion">>, "invalid_emotion", "value_error")
    ELSE IF Includes(message, "Numeric") \/ Includes(message, "Speed")
            \/ Includes(message, "Pitch")
    THEN ErrorReply(422, <<"body", "speed">>, "invalid_numeric", "value_error")
    ELSE IF Includes(message, "DisallowedChars") \/ Includes(message, "IllegalChars")
    THEN ErrorReply(422, <<"body", "text">>, "disallowed_chars", "value_error")
    ELSE IF Includes(message, "FilePath")
    THEN ErrorReply(422, <<"internal">>, "file_path_error", "internal_error")
    ELSE IF Includes(message, "NoAudioFile")
    THEN ErrorReply(422, <<"synthesis">>, "no_output_produced", "synthesis_error")
    ELSE ErrorReply(500, <<"internal">>, "internal_error", "internal_error")

\* catch of app.get('/speakers') in index.js
InlineSpeakersCatch(message) ==
    IF Includes(message, "RateLimit") THEN RateLimitReply
    ELSE ErrorReply(500, <<"speakers">>, "speakers_failed", "internal_error")

\* catch of app.post('/audio_query') in index.js: statusCode stays 422 in
\* every branch but the rate limit
InlineAudioQueryCatch(message) ==
    IF Includes(message, "RateLimit") THEN RateLimitReply
    ELSE IF Includes(message, "Text")
    THEN ErrorReply(422, <<"body", "text">>, "invalid_text", "value_error")
    ELSE IF Includes(message, "DisallowedChars")
    THEN ErrorReply(422, <<"body", "text">>, "disallowed_chars", "value_error")
    ELSE IF Includes(message, "Speaker")
    THEN ErrorReply(422, <<"body", "speaker">>, "invalid_speaker", "value_error")
    ELSE ErrorReply(422, <<"internal">>, "internal_error", "internal_error")

\* catch of app.post('/synthesis') in index.js: statusCode stays 422 in every
\* branch but the rate limit
InlineSynthesisCatch(message) ==
    IF Includes(message, "RateLimit") THEN RateLimitReply
    ELSE IF Includes(message, "Text")
    THEN ErrorReply(422, <<"body", "kana">>, "invalid_text", "value_error")
    ELSE IF Includes(message, "NarratorName")
    THEN ErrorReply(422, <<"body", "narrator">>, "invalid_narrator", "value_error")
    ELSE IF Includes(message, "Emotion")
    THEN ErrorReply(422, <<"body", "emotion">>, "invalid_emotion", "value_error")
    ELSE IF Includes(message, "NoAudioFile")
    THEN ErrorReply(422, <<"synthesis">>, "synthesis_failed", "synthesis_error")
    ELSE ErrorReply(422, <<"internal">>, "internal_error", "internal_error")

(***************************************************************************)
(* Configuration of the deployment and bounds of the model                 *)
(***************************************************************************)
\* RATE_LIMIT_WINDOW_MS, RATE_LIMIT_GET_REQUESTS, RATE_LIMIT_POST_REQUESTS of
\* the environment (defaults 60000, 50, 20), set small
RATE_LIMIT_WINDOW_MS == 1
RATE_LIMIT_GET_REQUESTS == 2
RATE_LIMIT_POST_REQUESTS == 1
\* the clock stops at MaxTime, uuidv4 is called at most MaxUuid times
MaxTime == 1
MaxUuid == 1
\* TEMP_DIR
TEMP_DIR == "temp"

(***************************************************************************)
(* What a handler leaves behind: the response, what it did on the way      *)
(* (run), and the new limiter store, uuid counter and disk.                *)
(***************************************************************************)
NoParams == [set |-> FALSE, text |-> <<>>, speed |-> 0, pitch |-> 0]
Params(text, speed, pitch) == [set |-> TRUE, text |-> text, speed |-> speed, pitch |-> pitch]

NoSay == [kind |-> "spawn", err |-> <<>>, wrote |-> FALSE, unlinkOk |-> TRUE]

\* run: looked says that the binary was asked for its catalog, info is the
\* narratorInfo of the lookup (or the validated narrator and emotion), norm
\* the text/speed/pitch taken from the body, params the validated text with
\* the speed and pitch of the invocation, say the argument vectors of the
\* --say invocations, outcome what the binary did with it, thrown the
\* message of the Error the catch block saw
Run(looked, info, params, say, thrown) ==
    [looked |-> looked, info |-> info, norm |-> params, params |-> params,
     say |-> say, outcome |-> NoSay, thrown |-> thrown]

NoRun == Run(FALSE, NotFound, NoParams, <<>>, <<>>)

\* the try block ended with a response
Done(reply, r, limiter, uuid, dsk) ==
    [thrown |-> FALSE, resp |-> reply, run |-> r, limiter |-> limiter,
     uuid |-> uuid, disk |-> dsk]

\* the try block ended with an Error; the catch block builds the response
Thrown(message, r, limiter, uuid, dsk) ==
    [thrown |-> TRUE, resp |-> SuccessReply(NoBody),
     run |-> [r EXCEPT !.thrown = message], limiter |-> limiter,
     uuid |-> uuid, disk |-> dsk]

\* the argument vector with --speed given only above the default
SayArgsSpeedAbove(text, outputPath, narrator, emotionParam, speed, pitch) ==
    <<"--say", text, "--out", outputPath, "--narrator", narrator,
      "--emotion", emotionParam>>
    \o (IF speed > SPEED_DEFAULT THEN <<"--speed", speed>> ELSE <<>>)
    \o (IF pitch # PITCH_DEFAULT THEN <<"--pitch", pitch>> ELSE <<>>)

\* the argument vector of a synthesis; speed and pitch stand for their
\* decimal strings
SayArgs(text, outputPath, narrator, emotionParam, speed, pitch) ==
    <<"--say", text, "--out", outputPath, "--narrator", narrator,
      "--emotion", emotionParam>>
    \o (IF speed # SPEED_DEFAULT THEN <<"--speed", speed>> ELSE <<>>)
    \o (IF pitch # PITCH_DEFAULT THEN <<"--pitch", pitch>> ELSE <<>>)

\* from uuidv4() to fs.unlink: the binary is run with the arguments, the file
\* is checked, read and sent, then unlinked.  say = [kind, err, wrote] is
\* what the binary does (wrote: it created the --out file), unlinkOk whether
\* fs.unlink succeeds.
SayTail(text, narrator, emotionParam, speed, pitch, r, limiter, say, unlinkOk) ==
    LET outputId == uuidNext
        checked == validateFilePath(<<TEMP_DIR, outputId>>, TEMP_DIR)
    IN  IF ~checked.ok THEN Thrown(checked.message, r, limiter, uuidNext + 1, disk)
        ELSE
        LET outputPath == checked.value
            args == SayArgs(text, outputPath, narrator, emotionParam, speed, pitch)
            exec == safeExec(ExecAnswer(say.kind, <<>>, say.err))
            disk1 == IF say.wrote THEN disk \cup {outputPath} ELSE disk
            r1 == [r EXCEPT !.say = <<args>>, !.outcome = say]
        IN  IF ~exec.ok THEN Thrown(exec.message, r1, limiter, uuidNext + 1, disk1)
            ELSE IF outputPath \notin disk1
            THEN Thrown(<<"NoAudioFile">>, r1, limiter, uuidNext + 1, disk1)
            ELSE Done(SuccessReply([kind |-> "audio", data |-> outputPath,
                                    filename |-> outputId]),
                      r1, limiter, uuidNext + 1,
                      IF unlinkOk THEN disk1 \ {outputPath} ELSE disk1)

(***************************************************************************)
(* POST /api/synthesize                                                    *)
(***************************************************************************)
\* the try block of POST /api/synthesize (the same steps in index.js and in
\* the refactored router)
SynthesizeTry(rq, say, unlinkOk) ==
    LET rl == checkRateLimit(rq.ip, RATE_LIMIT_POST_REQUESTS, RATE_LIMIT_WINDOW_MS)
    IN  IF ~rl.ok THEN Thrown(rl.message, NoRun, rl.limiter, uuidNext, disk)
        ELSE
        LET validatedText == validateText(rq.text)
            validatedNarrator ==
                validateNarrator(WithDefault(rq.narrator, Str(DEFAULT_NARRATOR)))
            validatedEmotion ==
                validateEmotion(WithDefault(rq.emotion, Str(DEFAULT_EMOTION)))
            validatedSpeed ==
                validateNumericParam(WithDefault(rq.speed, Num(SPEED_DEFAULT)),
                                     SPEED_MIN, SPEED_MAX, "Speed")
            validatedPitch ==
                validateNumericParam(WithDefault(rq.pitch, Num(PITCH_DEFAULT)),
                                     PITCH_MIN, PITCH_MAX, "Pitch")
        IN  IF ~validatedText.ok
            THEN Thrown(validatedText.message, NoRun, rl.limiter, uuidNext, disk)
            ELSE IF ~validatedNarrator.ok
            THEN Thrown(validatedNarrator.message, NoRun, rl.limiter, uuidNext, disk)
            ELSE IF ~validatedEmotion.ok
            THEN Thrown(validatedEmotion.message, NoRun, rl.limiter, uuidNext, disk)
            ELSE IF ~validatedSpeed.ok
            THEN Thrown(validatedSpeed.message, NoRun, rl.limiter, uuidNext, disk)
            ELSE IF ~validatedPitch.ok
            THEN Thrown(validatedPitch.message, NoRun, rl.limiter, uuidNext, disk)
            ELSE
            LET emotionParam ==
                    IF Includes(validatedEmotion.value, "=") THEN validatedEmotion.value
                    ELSE validatedEmotion.value \o <<"=">> \o EMOTION_DEFAULT_VALUE
                r == Run(FALSE, Found(validatedNarrator.value, validatedEmotion.value),
                         Params(validatedText.value, validatedSpeed.value,
                                validatedPitch.value), <<>>, <<>>)
            IN  SayTail(validatedText.value, validatedNarrator.value, emotionParam,
                        validatedSpeed.value, validatedPitch.value, r, rl.limiter,
                        say, unlinkOk)

\* either the response of the try block or the one its catch block builds
Caught(t, Catch(_)) ==
    IF t.thrown THEN [t EXCEPT !.resp = Catch(t.run.thrown)] ELSE t

\* app.post('/api/synthesize') of index.js
InlineSynthesize(rq, say, unlinkOk) ==
    Caught(SynthesizeTry(rq, say, unlinkOk), InlineSynthesizeCatch)

\* router.post('/synthesize') of the refactored Voicepeak routes
RouterSynthesize(rq, say, unlinkOk) ==
    Caught(SynthesizeTry(rq, say, unlinkOk), handleValidationError)

(***************************************************************************)
(* POST /synthesis                                                         *)
(* speedScale is counted in units of 1/8 and pitchScale in units of 1/20,  *)
(* so that speedScale * 100 and pitchScale * 50 reach halves and Math.round*)
(* has something to round.                                                 *)
(***************************************************************************)
SPEED_SCALE_UNIT == 8
PITCH_SCALE_UNIT == 20

\* phrase.moras.map(mora => mora.text).join('')
PhraseText(phrase) ==
    Join([i \in 1..Len(phrase.moras) |-> phrase.moras[i].text])

\* audioQuery.accent_phrases.map(...).join('')
PhrasesText(phrases) == Join([i \in 1..Len(phrases) |-> PhraseText(phrases[i])])

\* the else branch taking the pitch as pitchScale * 50 + 50
StandardQueryParametersShifted(audioQuery) ==
    LET kana == IF Truthy(audioQuery.kana) THEN audioQuery.kana.s ELSE <<>>
        text == IF kana = <<>> /\ Len(audioQuery.accent_phrases) > 0
                THEN PhrasesText(audioQuery.accent_phrases)
                ELSE kana
        speedScale == IF Truthy(audioQuery.speedScale) THEN audioQuery.speedScale.n
                      ELSE SPEED_SCALE_UNIT
        pitchScale == IF Truthy(audioQuery.pitchScale) THEN audioQuery.pitchScale.n
                      ELSE 0
    IN  Params(text, MathRound(speedScale * 100, SPEED_SCALE_UNIT),
                     MathRound(pitchScale * 50, PITCH_SCALE_UNIT) + 50)

\* the else branch of extractSynthesisParameters: the standard audio query
StandardQueryParameters(audioQuery) ==
    LET kana == IF Truthy(audioQuery.kana) THEN audioQuery.kana.s ELSE <<>>
        text == IF kana = <<>> /\ Len(audioQuery.accent_phrases) > 0
                THEN PhrasesText(audioQuery.accent_phrases)
                ELSE kana
        speedScale == IF Truthy(audioQuery.speedScale) THEN audioQuery.speedScale.n
                      ELSE SPEED_SCALE_UNIT
        pitchScale == IF Truthy(audioQuery.pitchScale) THEN audioQuery.pitchScale.n
                      ELSE 0
    IN  Params(text, MathRound(speedScale * 100, SPEED_SCALE_UNIT),
                     MathRound(pitchScale * 50, PITCH_SCALE_UNIT))

\* extractSynthesisParameters of routes/voicevox-compat.js
extractSynthesisParameters(audioQuery) ==
    IF Truthy(audioQuery.text)
    THEN LET speed == IF Truthy(audioQuery.speed) THEN audioQuery.speed.n ELSE 100
             pitch == IF Truthy(audioQuery.pitch) THEN audioQuery.pitch.n ELSE 0
         IN  IF speed < 50 \/ speed > 200 THEN Throw(<<"Speed", "OutOfRange">>)
             ELSE IF pitch < -50 \/ pitch > 50 THEN Throw(<<"Pitch", "OutOfRange">>)
             ELSE Ok(Params(audioQuery.text.s, speed, pitch))
    ELSE Ok(StandardQueryParameters(audioQuery))

\* router.post('/synthesis') of routes/voicevox-compat.js, its try block
RouterSynthesisTry(rq, say, unlinkOk) ==
    LET rl == checkRateLimit(rq.ip, RATE_LIMIT_POST_REQUESTS, RATE_LIMIT_WINDOW_MS)
    IN  IF ~rl.ok THEN Thrown(rl.message, NoRun, rl.limiter, uuidNext, disk)
        ELSE IF ~QueryGiven(rq.speaker)
        THEN Done(createErrorResponse(422, "query", "speaker", "speaker_required",
                                      "missing"),
                  NoRun, rl.limiter, uuidNext, disk)
        ELSE
        LET speakerId == validateSpeakerId(rq.speaker)
        IN  IF ~speakerId.ok
            THEN Thrown(speakerId.message, NoRun, rl.limiter, uuidNext, disk)
            ELSE
            LET narratorInfo == findNarratorByStyleId(speakerId.value)
                r0 == Run(TRUE, narratorInfo, NoParams, <<>>, <<>>)
            IN  IF ~narratorInfo.found
                THEN Done(createErrorResponse(422, "query", "speaker",
                                              "speaker_not_found", "value_error"),
                          r0, rl.limiter, uuidNext, disk)
                ELSE
                LET extracted == extractSynthesisParameters(rq)
                    r1 == [r0 EXCEPT !.norm = extracted.value]
                IN  IF ~extracted.ok
                    THEN Thrown(extracted.message, r0, rl.limiter, uuidNext, disk)
                    ELSE IF extracted.value.text = <<>>
                    THEN Done(createErrorResponse(422, "body", "kana",
                                                  "text_not_found", "value_error"),
                              r1, rl.limiter, uuidNext, disk)
                    ELSE
                    LET validatedText == validateText(Str(extracted.value.text))
                    IN  IF ~validatedText.ok
                        THEN Thrown(validatedText.message, r1, rl.limiter,
                                    uuidNext, disk)
                        ELSE
                        SayTail(validatedText.value, narratorInfo.narrator,
                                formatEmotionParameter(narratorInfo.emotion),
                                extracted.value.speed, extracted.value.pitch,
                                [r1 EXCEPT !.params =
                                    Params(validatedText.value, extracted.value.speed,
                                           extracted.value.pitch)],
                                rl.limiter, say, unlinkOk)

\* router.post('/synthesis') of routes/voicevox-compat.js
RouterSynthesis(rq, say, unlinkOk) ==
    Caught(RouterSynthesisTry(rq, say, unlinkOk), createVoiceVoxCompatibilityError)

\* app.post('/synthesis') of index.js, its try block: the range checks answer
\* 422 themselves
InlineSynthesisTry(rq, say, unlinkOk) ==
    LET rl == checkRateLimit(rq.ip, RATE_LIMIT_POST_REQUESTS, RATE_LIMIT_WINDOW_MS)
    IN  IF ~rl.ok THEN Thrown(rl.message, NoRun, rl.limiter, uuidNext, disk)
        ELSE IF ~QueryGiven(rq.speaker)
        THEN Done(ErrorReply(422, <<"query", "speaker">>, "speaker_required", "missing"),
                  NoRun, rl.limiter, uuidNext, disk)
        ELSE IF rq.speaker.t # "num" \/ rq.speaker.n < 0
        THEN Done(ErrorReply(422, <<"query", "speaker">>, "valid_speaker_required",
                             "value_error"),
                  NoRun, rl.limiter, uuidNext, disk)
        ELSE
        LET narratorInfo == InlineFindNarratorByStyleId(rq.speaker.n)
            r0 == Run(TRUE, narratorInfo, NoParams, <<>>, <<>>)
            simple == Truthy(rq.text)
            speed == IF Truthy(rq.speed) THEN rq.speed.n ELSE 100
            pitch == IF Truthy(rq.pitch) THEN rq.pitch.n ELSE 0
            standard == StandardQueryParameters(rq)
            p == IF simple THEN Params(rq.text.s, speed, pitch) ELSE standard
            r1 == [r0 EXCEPT !.norm = p]
        IN  IF ~narratorInfo.found
            THEN Done(ErrorReply(422, <<"query", "speaker">>, "speaker_not_found",
                                 "value_error"),
                      r0, rl.limiter, uuidNext, disk)
            ELSE IF simple /\ (speed < 50 \/ speed > 200)
            THEN Done(ErrorReply(422, <<"body", "speed">>, "speed_range", "value_error"),
                      r0, rl.limiter, uuidNext, disk)
            ELSE IF simple /\ (pitch < -50 \/ pitch > 50)
            THEN Done(ErrorReply(422, <<"body", "pitch">>, "pitch_range", "value_error"),
                      r0, rl.limiter, uuidNext, disk)
            ELSE IF p.text = <<>>
            THEN Done(ErrorReply(422, <<"body", "kana">>, "text_not_found", "value_error"),
                      r1, rl.limiter, uuidNext, disk)
            ELSE
            LET validatedText == validateText(Str(p.text))
            IN  IF ~validatedText.ok
                THEN Thrown(validatedText.message, r1, rl.limiter, uuidNext, disk)
                ELSE
                SayTail(validatedText.value, narratorInfo.narrator,
                        IF Includes(narratorInfo.emotion, "=") THEN narratorInfo.emotion
                        ELSE narratorInfo.emotion \o <<"=", "5", "0">>,
                        p.speed, p.pitch,
                        [r1 EXCEPT !.params = Params(validatedText.value, p.speed, p.pitch)],
                        rl.limiter, say, unlinkOk)

\* app.post('/synthesis') of index.js
InlineSynthesis(rq, say, unlinkOk) ==
    Caught(InlineSynthesisTry(rq, say, unlinkOk), InlineSynthesisCatch)

(***************************************************************************)
(* POST /audio_query                                                       *)
(***************************************************************************)
\* the full-width question mark, one character
FULLWIDTH_QUESTION == "FULLWIDTH_QUESTION"

\* text.split('').map(char => ({text: char, consonant: null, vowel: char, ...}))
MorasOf(text) ==
    [i \in 1..Len(text) |->
        [text |-> <<text[i]>>, consonant |-> Null, consonant_length |-> 0,
         vowel |-> <<text[i]>>]]

\* the audio query with only the ASCII question mark making it a question
generateAudioQueryAsciiOnly(text) ==
    [kind |-> "audio_query",
     accent_phrases |-> <<[moras |-> MorasOf(text), accent |-> 1,
                           is_interrogative |-> Includes(text, "?")]>>,
     speedScale |-> Num(SPEED_SCALE_UNIT), pitchScale |-> Num(0),
     kana |-> Str(text)]

\* generateAudioQuery of routes/voicevox-compat.js; the fixed fields that no
\* request of the server reads back (vowel_length, pitch, volumeScale, ...)
\* are left out; speedScale 1.0 and pitchScale 0.0 in their units
generateAudioQuery(text) ==
    [kind |-> "audio_query",
     accent_phrases |-> <<[moras |-> MorasOf(text), accent |-> 1,
                           is_interrogative |-> Includes(text, FULLWIDTH_QUESTION)
                                                \/ Includes(text, "?")]>>,
     speedScale |-> Num(SPEED_SCALE_UNIT), pitchScale |-> Num(0),
     kana |-> Str(text)]

\* router.post('/audio_query') of routes/voicevox-compat.js, its try block
RouterAudioQueryTry(rq) ==
    LET rl == checkRateLimit(rq.ip, RATE_LIMIT_POST_REQUESTS, RATE_LIMIT_WINDOW_MS)
    IN  IF ~rl.ok THEN Thrown(rl.message, NoRun, rl.limiter, uuidNext, disk)
        ELSE IF ~Truthy(rq.text)
        THEN Done(createErrorResponse(422, "body", "text", "text_required", "missing"),
                  NoRun, rl.limiter, uuidNext, disk)
        ELSE IF ~QueryGiven(rq.speaker)
        THEN Done(createErrorResponse(422, "body", "speaker", "speaker_required",
                                      "missing"),
                  NoRun, rl.limiter, uuidNext, disk)
        ELSE
        LET validatedText == validateText(rq.text)
            speakerId == validateSpeakerId(rq.speaker)
        IN  IF ~validatedText.ok
            THEN Thrown(validatedText.message, NoRun, rl.limiter, uuidNext, disk)
            ELSE IF ~speakerId.ok
            THEN Thrown(speakerId.message, NoRun, rl.limiter, uuidNext, disk)
            ELSE
            LET narratorInfo == findNarratorByStyleId(speakerId.value)
                r0 == Run(TRUE, narratorInfo, NoParams, <<>>, <<>>)
            IN  IF ~narratorInfo.found
                THEN Done(createErrorResponse(422, "body", "speaker",
                                              "speaker_not_found", "value_error"),
                          r0, rl.limiter, uuidNext, disk)
                ELSE Done(SuccessReply(generateAudioQuery(validatedText.value)),
                          r0, rl.limiter, uuidNext, disk)

\* router.post('/audio_query') of routes/voicevox-compat.js
RouterAudioQuery(rq) ==
    Caught(RouterAudioQueryTry(rq), createVoiceVoxCompatibilityError)

\* app.post('/audio_query') of index.js, its try block
InlineAudioQueryTry(rq) ==
    LET rl == checkRateLimit(rq.ip, RATE_LIMIT_POST_REQUESTS, RATE_LIMIT_WINDOW_MS)
    IN  IF ~rl.ok THEN Thrown(rl.message, NoRun, rl.limiter, uuidNext, disk)
        ELSE IF ~Truthy(rq.text)
        THEN Done(ErrorReply(422, <<"body", "text">>, "text_required", "missing"),
                  NoRun, rl.limiter, uuidNext, disk)
        ELSE
        LET validatedText == validateText(rq.text)
        IN  IF ~validatedText.ok
            THEN Thrown(validatedText.message, NoRun, rl.limiter, uuidNext, disk)
            ELSE IF ~QueryGiven(rq.speaker)
            THEN Done(ErrorReply(422, <<"body", "speaker">>, "speaker_required",
                                 "missing"),
                      NoRun, rl.limiter, uuidNext, disk)
            ELSE IF rq.speaker.t # "num" \/ rq.speaker.n < 0
            THEN Done(ErrorReply(422, <<"body", "speaker">>, "valid_speaker_required",
                                 "value_error"),
                      NoRun, rl.limiter, uuidNext, disk)
            ELSE
            LET narratorInfo == InlineFindNarratorByStyleId(rq.speaker.n)
                r0 == Run(TRUE, narratorInfo, NoParams, <<>>, <<>>)
            IN  IF ~narratorInfo.found
                THEN Done(ErrorReply(422, <<"body", "speaker">>, "speaker_not_found",
                                     "value_error"),
                          r0, rl.limiter, uuidNext, disk)
                ELSE Done(SuccessReply(generateAudioQuery(validatedText.value)),
                          r0, rl.limiter, uuidNext, disk)

\* app.post('/audio_query') of index.js
InlineAudioQuery(rq) == Caught(InlineAudioQueryTry(rq), InlineAudioQueryCatch)

(***************************************************************************)
(* GET /speakers                                                           *)
(***************************************************************************)
\* router.get('/speakers') of routes/voicevox-compat.js, its try block
RouterSpeakersTry(rq) ==
    LET rl == checkRateLimit(rq.ip, RATE_LIMIT_GET_REQUESTS, RATE_LIMIT_WINDOW_MS)
    IN  IF ~rl.ok THEN Thrown(rl.message, NoRun, rl.limiter, uuidNext, disk)
        ELSE LET list == generateVoiceVoxSpeakersList
                 r0 == Run(TRUE, NotFound, NoParams, <<>>, <<>>)
             IN  IF ~list.ok THEN Thrown(list.message, r0, rl.limiter, uuidNext, disk)
                 ELSE Done(SuccessReply([kind |-> "speakers",
                                         speakers |-> list.speakers]),
                           r0, rl.limiter, uuidNext, disk)

\* router.get('/speakers') of routes/voicevox-compat.js
RouterSpeakers(rq) == Caught(RouterSpeakersTry(rq), createVoiceVoxCompatibilityError)

\* app.get('/speakers') of index.js, its try block
InlineSpeakersTry(rq) ==
    LET rl == checkRateLimit(rq.ip, RATE_LIMIT_GET_REQUESTS, RATE_LIMIT_WINDOW_MS)
    IN  IF ~rl.ok THEN Thrown(rl.message, NoRun, rl.limiter, uuidNext, disk)
        ELSE LET result == safeExec(listNarrator)
                 r0 == Run(TRUE, NotFound, NoParams, <<>>, <<>>)
             IN  IF ~result.ok
                 THEN Thrown(result.message, r0, rl.limiter, uuidNext, disk)
                 ELSE Done(SuccessReply(
                             [kind |-> "speakers",
                              speakers |-> InlineSpeakersLoop(ParseLines(result.value),
                                                              2041348160)]),
                           r0, rl.limiter, uuidNext, disk)

\* app.get('/speakers') of index.js
InlineSpeakers(rq) == Caught(InlineSpeakersTry(rq), InlineSpeakersCatch)

(***************************************************************************)
(* GET /api/narrators, /api/emotions, /api/emotions/:narrator              *)
(***************************************************************************)
\* the try block of GET /api/narrators (the same steps in both routers)
NarratorsTry(rq) ==
    LET rl == checkRateLimit(rq.ip, RATE_LIMIT_GET_REQUESTS, RATE_LIMIT_WINDOW_MS)
    IN  IF ~rl.ok THEN Thrown(rl.message, NoRun, rl.limiter, uuidNext, disk)
        ELSE LET result == safeExec(listNarrator)
                 r0 == Run(TRUE, NotFound, NoParams, <<>>, <<>>)
             IN  IF ~result.ok
                 THEN Thrown(result.message, r0, rl.limiter, uuidNext, disk)
                 ELSE Done(SuccessReply([kind |-> "narrators",
                                         narrators |-> ParseLines(result.value)]),
                           r0, rl.limiter, uuidNext, disk)

\* the try block of GET /api/emotions and GET /api/emotions/:narrator (the
\* same steps in both routers); /api/emotions asks for the default narrator
EmotionsTry(rq, narratorParam) ==
    LET rl == checkRateLimit(rq.ip, RATE_LIMIT_GET_REQUESTS, RATE_LIMIT_WINDOW_MS)
    IN  IF ~rl.ok THEN Thrown(rl.message, NoRun, rl.limiter, uuidNext, disk)
        ELSE LET narrator == IF rq.ep = "emotions" THEN Ok(DEFAULT_NARRATOR)
                             ELSE validateNarrator(narratorParam)
                 r0 == Run(TRUE, NotFound, NoParams, <<>>, <<>>)
             IN  IF ~narrator.ok
                 THEN Thrown(narrator.message, NoRun, rl.limiter, uuidNext, disk)
                 ELSE LET result == safeExec(EmotionAnswer(narrator.value))
                      IN  IF ~result.ok
                          THEN Thrown(result.message, r0, rl.limiter, uuidNext, disk)
                          ELSE Done(SuccessReply(
                                      [kind |-> "emotions",
                                       emotions |-> ParseLines(result.value)]),
                                    r0, rl.limiter, uuidNext, disk)

\* the three GET /api handlers of index.js
InlineApiGet(rq) ==
    IF rq.ep = "narrators" THEN Caught(NarratorsTry(rq), InlineNarratorsCatch)
    ELSE IF rq.ep = "emotions" THEN Caught(EmotionsTry(rq, rq.narrator), InlineEmotionsCatch)
    ELSE Caught(EmotionsTry(rq, rq.narrator), InlineEmotionsForCatch)

\* the three GET /api handlers of the refactored Voicepeak routes
RouterApiGet(rq) ==
    IF rq.ep = "narrators" THEN Caught(NarratorsTry(rq), handleValidationError)
    ELSE Caught(EmotionsTry(rq, rq.narrator), handleValidationError)

(***************************************************************************)
(* Catalogs of the binary                                                  *)
(***************************************************************************)
NarratorA == <<"A">>
NarratorB == <<"B">>
EmotionFun == <<"f", "u", "n">>
EmotionFun7 == <<"f", "u", "n", "=", "7">>
EmotionSad == <<"s", "a", "d">>
OkAnswer(lines) == ExecAnswer("ok", lines, <<>>)
ExitAnswer == ExecAnswer("exit", <<>>, <<>>)

\* stdout of --list-narrator: up to MaxNarrators names out of the three, in
\* any order, or the two short names between a banner line and blank lines
MaxNarrators == 2
NarratorNames == {NarratorA, NarratorB, DEFAULT_NARRATOR}

NarratorLists ==
    {l \in UNION {[1..k -> NarratorNames] : k \in 0..MaxNarrators} :
        \A i, j \in 1..Len(l) : i # j => l[i] # l[j]}

NarratorAnswers ==
    {OkAnswer(l) : l \in NarratorLists}
    \cup {OkAnswer(<<<<NOISE, "1">>, NarratorA, <<>>, <<" ">>, NarratorB, <<" ">>>>),
          ExitAnswer, ExecAnswer("timeout", <<>>, <<>>)}

\* stdout of --list-emotion per narrator, or its failure
EmotionAnswersA ==
    {ExitAnswer, OkAnswer(<<>>), OkAnswer(<<EmotionFun>>),
     OkAnswer(<<EmotionFun7, EmotionSad>>),
     OkAnswer(<<<<NOISE>>, EmotionSad, <<" ">>, EmotionFun>>)}
EmotionAnswersB ==
    {ExecAnswer("spawn", <<>>, <<>>), OkAnswer(<<EmotionSad>>),
     OkAnswer(<<EmotionSad, EmotionFun>>)}
EmotionAnswersDefault ==
    {ExitAnswer, OkAnswer(<<DEFAULT_EMOTION, EmotionFun>>)}

EmotionCatalogs ==
    {[n \in NarratorNames |->
        IF n = NarratorA THEN a ELSE IF n = NarratorB THEN b ELSE d] :
     a \in EmotionAnswersA, b \in EmotionAnswersB, d \in EmotionAnswersDefault}

\* the three catalogs under which the request shapes are explored: two
\* narrators that list their emotions, a narrator whose listing fails before
\* one whose listing works, and a binary that cannot list its narrators
MainCatalogs ==
    {[narrators |-> OkAnswer(<<NarratorA, DEFAULT_NARRATOR>>),
      emotions |-> [n \in NarratorNames |->
                     IF n = NarratorA THEN OkAnswer(<<EmotionFun7, EmotionSad>>)
                     ELSE IF n = NarratorB THEN OkAnswer(<<EmotionSad>>)
                     ELSE OkAnswer(<<DEFAULT_EMOTION, EmotionFun>>)]],
     [narrators |-> OkAnswer(<<NarratorB, NarratorA>>),
      emotions |-> [n \in NarratorNames |->
                     IF n = NarratorA THEN OkAnswer(<<EmotionFun>>)
                     ELSE IF n = NarratorB THEN ExecAnswer("spawn", <<>>, <<>>)
                     ELSE ExitAnswer]],
     [narrators |-> ExitAnswer,
      emotions |-> [n \in NarratorNames |-> ExitAnswer]]}

(***************************************************************************)
(* Requests                                                                *)
(***************************************************************************)
Clients == {"c1"}

BaseReq(ep, ip) ==
    [ep |-> ep, ip |-> ip, syntax |-> "json", text |-> Absent, narrator |-> Absent, emotion |-> Absent,
     speed |-> Absent, pitch |-> Absent, speaker |-> Absent, kana |-> Absent,
     accent_phrases |-> <<>>, speedScale |-> Absent, pitchScale |-> Absent]

NoReq == BaseReq("none", "none")
NoResp == [status |-> 0, loc |-> <<>>, msg |-> "", type |-> "", body |-> NoBody]

Texts == {Absent, Str(<<"a">>), Str(<<" ", "a", "?", " ">>), Str(<<"a", "$">>)}
NarratorParams == {Absent, Str(NarratorA), Str(<<"A", "$">>)}
EmotionParams == {Absent, Str(EmotionFun), Str(EmotionFun7), Str(<<"=", "7">>)}
Speeds == {Absent, Null, Num(0), Num(30), Num(50), Num(100), Num(150), Num(201)}
Pitches == {Absent, Num(-51), Num(-20), Num(0), Num(50), Num(60)}

\* the speaker query parameter: missing, not a numeral, or a numeral
Speakers ==
    {Absent, Str(<<"a">>), Num(-1), Num(0)}
    \cup {Num(BASE_SPEAKER_ID + d) : d \in -1..4}

MoraA == [text |-> <<"a">>]
MoraB == [text |-> <<"b">>]
PhraseLists ==
    {<<>>, <<[moras |-> <<MoraA, MoraB>>]>>,
     <<[moras |-> <<MoraB>>], [moras |-> <<>>], [moras |-> <<MoraA, MoraA>>]>>}
Kanas == {Absent, Str(<<>>), Str(<<"k">>), Str(<<"k", "$">>)}
\* speedScale 0, 1.0, 1.125, 1.5, 5.0 in eighths
SpeedScales == {Absent, Num(0), Num(8), Num(9), Num(12), Num(40)}
\* pitchScale 0, 0.4, -0.05, 0.05, 1.5 in twentieths
PitchScales == {Absent, Num(0), Num(8), Num(-1), Num(1), Num(30)}

SynthesizeRequests ==
    {[BaseReq("synthesize", ip) EXCEPT !.text = t, !.narrator = n, !.emotion = e] :
        ip \in Clients, t \in Texts, n \in NarratorParams, e \in EmotionParams}
    \cup
    {[BaseReq("synthesize", ip) EXCEPT !.text = t, !.speed = s, !.pitch = p] :
        ip \in Clients, t \in {Str(<<"a">>)}, s \in Speeds, p \in Pitches}

SynthesisRequests ==
    {[BaseReq("synthesis", ip) EXCEPT !.speaker = sp, !.text = t, !.kana = k] :
        ip \in Clients, sp \in Speakers, t \in {Absent, Str(<<"a">>)},
        k \in {Str(<<"k">>)}}
    \cup
    {[BaseReq("synthesis", ip) EXCEPT !.speaker = Num(BASE_SPEAKER_ID), !.text = t,
                                      !.speed = s, !.pitch = p] :
        ip \in Clients, t \in {Str(<<"a">>)}, s \in Speeds, p \in Pitches}
    \cup
    {[BaseReq("synthesis", ip) EXCEPT !.speaker = Num(BASE_SPEAKER_ID), !.kana = k,
                                      !.accent_phrases = ph] :
        ip \in Clients, k \in Kanas, ph \in PhraseLists}
    \cup
    {[BaseReq("synthesis", ip) EXCEPT !.speaker = Num(BASE_SPEAKER_ID),
                                      !.kana = Str(<<"k">>),
                                      !.speedScale = ss, !.pitchScale = ps] :
        ip \in Clients, ss \in SpeedScales, ps \in PitchScales}

AudioQueryRequests ==
    {[BaseReq("audio_query", ip) EXCEPT !.text = t, !.speaker = sp] :
        ip \in Clients, t \in Texts \cup {Str(<<"a", FULLWIDTH_QUESTION>>)},
        sp \in Speakers}

SpeakersRequests == {BaseReq("speakers", ip) : ip \in Clients}

ApiGetRequests ==
    {BaseReq("narrators", ip) : ip \in Clients}
    \cup {BaseReq("emotions", ip) : ip \in Clients}
    \cup {[BaseReq("emotions_for", ip) EXCEPT !.narrator = n] :
            ip \in Clients,
            n \in {Str(NarratorA), Str(NarratorB), Str(<<"A", "$">>), Str(<<"m">>)}}

\* POST requests whose body is not JSON text
BrokenRequests ==
    {[BaseReq(ep, ip) EXCEPT !.syntax = "broken"] :
        ep \in {"synthesize", "synthesis", "audio_query"}, ip \in Clients}

\* what the binary does with a --say invocation (wrote: it created the --out
\* file), what its stderr holds, and whether fs.unlink succeeds afterwards
SayOutcomes ==
    {[kind |-> "ok", err |-> <<>>, wrote |-> TRUE, unlinkOk |-> u] : u \in BOOLEAN}
    \cup {[kind |-> "ok", err |-> <<>>, wrote |-> FALSE, unlinkOk |-> TRUE]}
    \cup {[kind |-> "exit", err |-> e, wrote |-> w, unlinkOk |-> TRUE] :
            e \in {<<>>, <<"Text">>}, w \in BOOLEAN}
    \cup {[kind |-> "spawn", err |-> <<>>, wrote |-> FALSE, unlinkOk |-> TRUE]}
    \cup {[kind |-> "timeout", err |-> <<>>, wrote |-> w, unlinkOk |-> TRUE] :
            w \in BOOLEAN}

\* the binary synthesizes, and the file can be unlinked
SayOk == [kind |-> "ok", err |-> <<>>, wrote |-> TRUE, unlinkOk |-> TRUE]

\* the outcomes explored for a request: all of them for the plain request of
\* an endpoint (the text "a" and nothing else, for a speaker that is the
\* first id), a successful synthesis for the others
OutcomesFor(rq) ==
    IF /\ rq.text = Str(<<"a">>)
       /\ rq.narrator = Absent /\ rq.emotion = Absent
       /\ rq.speed = Absent /\ rq.pitch = Absent
       /\ rq.speedScale = Absent /\ rq.pitchScale = Absent
       /\ rq.accent_phrases = <<>>
       /\ rq.speaker \in {Absent, Num(BASE_SPEAKER_ID)}
    THEN SayOutcomes
    ELSE {SayOk}

\* the requests of the catalog specification: the three endpoints of the
\* flat id space, one body each
IdRequests ==
    SpeakersRequests
    \cup {[BaseReq("audio_query", ip) EXCEPT !.text = Str(<<"a">>), !.speaker = sp] :
            ip \in Clients, sp \in Speakers}
    \cup {[BaseReq("synthesis", ip) EXCEPT !.text = Str(<<"a">>), !.speaker = sp] :
            ip \in Clients, sp \in Speakers}

(***************************************************************************)
(* The state machine                                                       *)
(***************************************************************************)
Impls == {"inline", "router"}

\* app.get / router.get or app.post / router.post registered the endpoint
Method(rq) ==
    IF rq.ep \in {"synthesize", "synthesis", "audio_query"} THEN "POST" ELSE "GET"

\* the handler got past SecurityUtils.checkRateLimit
PastRateLimit(h) == ~Includes(h.run.thrown, "RateLimit")

\* Log of the requests the limiter let through, kept beside the limiter's own
\* store: accepted[ip] lists [time, method] of the accepted requests of ip
\* that are less than a window old
Accept(ip, method) ==
    [accepted EXCEPT ![ip] = Append(@, [time |-> now, method |-> method])]

\* the accepted requests of ip made less than windowMs before time
AcceptedWithin(ip, time, windowMs) ==
    SelectSeq(accepted[ip], LAMBDA a : time - a.time < windowMs)

Recent(time, windowMs) ==
    [c \in DOMAIN accepted |-> AcceptedWithin(c, time, windowMs)]

\* env: the environment of the process.  VOICEVOX_ENGINE_ENABLED is whether
\* the variable is the string 'true', VOICEVOX_ENGINE_URL whether the variable
\* is set, and the USE_VOICEVOX_FOR_ flags are those of the README
Envs ==
    [VOICEVOX_ENGINE_ENABLED : BOOLEAN, VOICEVOX_ENGINE_URL : BOOLEAN,
     USE_VOICEVOX_FOR_NARRATORS : BOOLEAN, USE_VOICEVOX_FOR_EMOTIONS : BOOLEAN,
     USE_VOICEVOX_FOR_SYNTHESIS : BOOLEAN]

NoEngineEnv ==
    [VOICEVOX_ENGINE_ENABLED |-> FALSE, VOICEVOX_ENGINE_URL |-> FALSE,
     USE_VOICEVOX_FOR_NARRATORS |-> FALSE, USE_VOICEVOX_FOR_EMOTIONS |-> FALSE,
     USE_VOICEVOX_FOR_SYNTHESIS |-> FALSE]

\* remote: the last call of a VoiceVoxAdapter operation: the operation and
\* its arguments, the speakers the engine has, the fault of the engine and
\* the HTTP request it strikes (at), the code of the Error that request
\* raised (hit, "none" when the operation never made it), the result, the
\* HTTP requests it issued in order, each with its speaker parameter (calls),
\* and whether it returned audio bytes
NoRemote ==
    [op |-> "none", narrator |-> "", emotion |-> "", text |-> "", speakers |-> <<>>,
     fault |-> "none", at |-> "none", hit |-> "none", ok |-> TRUE, message |-> <<>>,
     calls |-> <<>>, audio |-> FALSE]

\* proc: one call of SecurityUtils.safeExec followed event by event.  plan is
\* what the binary is going to do (kind "ok" or "exit": it ends with the exit
\* code; "spawn": it cannot be started; "hang": it never ends by itself), rest
\* the lines of stdout it has yet to write, stdout and stderr what the data
\* handlers have gathered, child the process as the call sees it, code the
\* exit code of the close event, killed whether child.kill() reached a
\* running process, timer the setTimeout, elapsed the time since spawn,
\* promise the state of the returned promise with its value or message
NoExec ==
    [plan |-> "none", rest |-> <<>>, stdout |-> <<>>, stderr |-> <<>>,
     child |-> "none", code |-> 0, killed |-> FALSE, timer |-> "none", elapsed |-> 0,
     promise |-> "none", value |-> <<>>, message |-> <<>>]

\* check: the last direct call of checkRateLimit (ip, ok), the limit and the
\* window of the calls, the number of requests of ip accepted less than a
\* window before the call (before), and the clients refused so far
\* jobs: the synthesis requests in flight, numbered in the order of their
\* arrival, each followed step by step from the generation of its output
\* path; files: the temp directory, for every
\* path the invocation whose bytes the file holds (0: no such file)
MaxJobs == 2
JobIds == 1..MaxJobs
TempPaths == {<<TEMP_DIR, u>> : u \in 0..MaxJobs}
NoFiles == [f \in TempPaths |-> 0]

NoJob ==
    [pc |-> "idle", outputPath |-> <<TEMP_DIR, 0>>, plan |-> "none",
     child |-> "none", timer |-> "none", promise |-> "none", value |-> <<>>,
     message |-> <<>>, wavBuffer |-> 0, resp |-> NoResp, sent |-> 0,
     trace |-> <<>>, unlink |-> "none"]

NoJobs == [j \in JobIds |-> NoJob]

\* held: the audio query a client got from /audio_query and has yet to post
\* to /synthesis, with the validated text it was made for and the speaker
NoHeld == [given |-> FALSE, ip |-> "none", text |-> <<>>, speaker |-> Absent,
           query |-> NoBody]

NoCheck ==
    [max |-> 0, window |-> 0, called |-> FALSE, ip |-> "none", ok |-> TRUE,
     before |-> 0, refused |-> {}]

InitRest ==
    /\ impl \in Impls
    /\ rateLimiter = [c \in Clients |-> <<>>]
    /\ now = 0
    /\ uuidNext = 0
    /\ disk = {}
    /\ phase = "idle"
    /\ req = NoReq
    /\ resp = NoResp
    /\ run = NoRun
    /\ accepted = [c \in Clients |-> <<>>]
    /\ check = NoCheck
    /\ env = NoEngineEnv
    /\ voiceVoxAdapter = "null"
    /\ remote = NoRemote
    /\ proc = NoExec
    /\ jobs = NoJobs
    /\ files = NoFiles
    /\ held = NoHeld

Init ==
    /\ \E c \in MainCatalogs : listNarrator = c.narrators /\ listEmotion = c.emotions
    /\ InitRest

InitCatalog ==
    /\ listNarrator \in NarratorAnswers
    /\ listEmotion \in EmotionCatalogs
    /\ InitRest

\* the handler of the request in the implementation named by which: the
\* handlers of index.js or the refactored routers
HandlerOf(which, rq, say, unlinkOk) ==
    CASE rq.ep = "synthesize" ->
            IF which = "inline" THEN InlineSynthesize(rq, say, unlinkOk)
            ELSE RouterSynthesize(rq, say, unlinkOk)
      [] rq.ep = "synthesis" ->
            IF which = "inline" THEN InlineSynthesis(rq, say, unlinkOk)
            ELSE RouterSynthesis(rq, say, unlinkOk)
      [] rq.ep = "audio_query" ->
            IF which = "inline" THEN InlineAudioQuery(rq) ELSE RouterAudioQuery(rq)
      [] rq.ep = "speakers" ->
            IF which = "inline" THEN InlineSpeakers(rq) ELSE RouterSpeakers(rq)
      [] OTHER ->
            IF which = "inline" THEN InlineApiGet(rq) ELSE RouterApiGet(rq)

\* the handler of the request under the deployed implementation
Handler(rq, say, unlinkOk) == HandlerOf(impl, rq, say, unlinkOk)

\* one request, from its arrival to the end of its handler
Handle(rq, say, unlinkOk) ==
    /\ phase = "idle"
    /\ \E h \in {Handler(rq, say, unlinkOk)} :
           /\ h.uuid <= MaxUuid
           /\ rateLimiter' = h.limiter
           /\ uuidNext' = h.uuid
           /\ disk' = h.disk
           /\ resp' = h.resp
           /\ run' = h.run
           /\ accepted' = IF PastRateLimit(h) THEN Accept(rq.ip, Method(rq))
                           ELSE accepted
    /\ req' = rq
    /\ phase' = "done"
    /\ UNCHANGED <<impl, listNarrator, listEmotion, now, quietVars>>

PostSynthesize ==
    \E rq \in SynthesizeRequests :
        \E say \in OutcomesFor(rq) : Handle(rq, say, say.unlinkOk)

PostSynthesis ==
    \E rq \in SynthesisRequests :
        \E say \in OutcomesFor(rq) : Handle(rq, say, say.unlinkOk)

PostAudioQuery == \E rq \in AudioQueryRequests : Handle(rq, NoSay, TRUE)

GetSpeakers == \E rq \in SpeakersRequests : Handle(rq, NoSay, TRUE)

GetApi == \E rq \in ApiGetRequests : Handle(rq, NoSay, TRUE)

\* app.use(express.json({limit: '1mb'})) of index.js: a body that does not
\* parse never reaches the handler; the parser hands its 400 error to
\* Express, and index.js registers no error-handling middleware
PostBroken ==
    /\ phase = "idle"
    /\ impl = "inline"
    /\ \E rq \in BrokenRequests : req' = rq
    /\ resp' = DefaultErrorReply(400)
    /\ run' = NoRun
    /\ phase' = "done"
    /\ UNCHANGED <<listNarrator, listEmotion, impl, rateLimiter, now, uuidNext, disk,
                   accepted, quietVars>>

\* the catalog specification's requests
IdRequest ==
    \E rq \in IdRequests :
        Handle(rq, SayOk, TRUE)

\* Date.now() advances
Tick ==
    /\ phase = "idle"
    /\ now < MaxTime
    /\ now' = now + 1
    /\ accepted' = Recent(now + 1, RATE_LIMIT_WINDOW_MS)
    /\ UNCHANGED <<impl, listNarrator, listEmotion, rateLimiter, uuidNext, disk,
                   phase, req, resp, run, quietVars>>

\* the response has left; the server waits for the next request
Deliver ==
    /\ phase = "done"
    /\ phase' = "idle"
    /\ req' = NoReq
    /\ resp' = NoResp
    /\ run' = NoRun
    /\ UNCHANGED <<impl, listNarrator, listEmotion, rateLimiter, now, uuidNext, disk,
                   accepted, quietVars>>

Next ==
    \/ PostSynthesize
    \/ PostSynthesis
    \/ PostAudioQuery
    \/ GetSpeakers
    \/ GetApi
    \/ PostBroken
    \/ Tick
    \/ Deliver

Spec == Init /\ [][Next]_vars

NextCatalog ==
    \/ IdRequest
    \/ Deliver

SpecCatalog == InitCatalog /\ [][NextCatalog]_vars

(***************************************************************************)
(* VoiceVoxAdapter (voicevox-adapter.js).  Messages are token sequences:   *)
(*   EngineUnreachable = VoiceVox Engine への接続に失敗しました            *)
(*   VoiceVox ... Failed = VoiceVox での<context>に失敗: <message>         *)
(*   TextProcessingError = テキスト処理エラー                              *)
(*   ResourceNotFound = リソースが見つかりません                           *)
(*   VoiceVoxApiError = VoiceVox API エラー (<status>)                     *)
(*   NarratorNotFound = ナレーター "<name>" が見つかりません               *)
(*   NoSpeakers = 利用可能なスピーカーが見つかりません                     *)
(*   ValidTextRequired = 有効なテキストが必要です                          *)
(***************************************************************************)
\* an Error as the adapter's catch blocks see it: an axios error with a
\* response (status), an axios error with a code, or a plain Error
HttpError(status) ==
    [response |-> TRUE, status |-> status, code |-> "ERR_BAD_RESPONSE",
     message |-> <<"Request", "failed", "with", "status", "code">>]

NetError(code) ==
    [response |-> FALSE, status |-> 0, code |-> code,
     message |-> IF code = "ECONNREFUSED" THEN <<"connect", "ECONNREFUSED">>
                 ELSE <<"timeout", "exceeded">>]

PlainError(message) ==
    [response |-> FALSE, status |-> 0, code |-> "", message |-> message]

NoError == PlainError(<<>>)

\* the faults of the engine: a refused connection, a timeout, an error status
EngineFaults == {"ECONNREFUSED", "ECONNABORTED", "422", "404", "500"}

FaultError(fault) ==
    CASE fault = "422" -> HttpError(422)
      [] fault = "404" -> HttpError(404)
      [] fault = "500" -> HttpError(500)
      [] OTHER -> NetError(fault)

\* this.client.get / this.client.post: the request named call, against an
\* engine whose fault strikes the request named at
Http(call, fault, at, data) ==
    IF fault # "none" /\ at = call
    THEN [ok |-> FALSE, issued |-> TRUE, value |-> <<>>, error |-> FaultError(fault)]
    ELSE [ok |-> TRUE, issued |-> TRUE, value |-> data, error |-> NoError]

\* VoiceVoxAdapter._getSpeakers
GetSpeakersOfEngine(fault, at, speakers) == Http("speakers", fault, at, speakers)

\* VoiceVoxAdapter._handleApiError
handleApiError(error, context) ==
    IF error.response
    THEN CASE error.status = 422 -> <<"TextProcessingError">>
           [] error.status = 404 -> <<"ResourceNotFound">>
           [] OTHER -> <<"VoiceVoxApiError">>
    ELSE IF error.code = "ECONNREFUSED"
    THEN <<"EngineUnreachable">>
    ELSE <<context, "Failed">> \o error.message

\* VoiceVoxAdapter._createError
createError(context, originalError) ==
    <<"VoiceVox", context, "Failed">> \o originalError.message

\* what an operation leaves in remote: the Error code of the failed request
Outcome(ok, hit, message) ==
    [ok |-> ok, hit |-> hit, message |-> message, calls |-> <<>>, audio |-> FALSE]

\* one HTTP request to the engine: its name, and its speaker parameter when
\* it has one
Call(call, speaker) == <<call, speaker>>
ListSpeakers == <<Call("speakers", <<>>)>>
Issued(out, calls) == [out EXCEPT !.calls = calls]

HitOf(error) ==
    IF error.response THEN "status" ELSE IF error.code = "" THEN "none" ELSE error.code

\* speakers.find(s => s.name === name): the index, 0 when there is none
FindSpeaker(speakers, name) ==
    IF \E i \in 1..Len(speakers) : speakers[i].name = name
    THEN CHOOSE i \in 1..Len(speakers) :
            /\ speakers[i].name = name
            /\ \A j \in 1..(i - 1) : speakers[j].name # name
    ELSE 0

\* VoiceVoxAdapter.getNarrators
getNarrators(fault, at, speakers) ==
    LET got == GetSpeakersOfEngine(fault, at, speakers)
    IN  Issued(IF ~got.ok
               THEN Outcome(FALSE, HitOf(got.error),
                            createError("ListNarrators", got.error))
               ELSE Outcome(TRUE, "none", <<>>),
               ListSpeakers)

\* VoiceVoxAdapter.getEmotions
getEmotions(fault, at, speakers, narratorName) ==
    LET got == GetSpeakersOfEngine(fault, at, speakers)
    IN  Issued(IF ~got.ok
               THEN Outcome(FALSE, HitOf(got.error),
                            createError("ListEmotions", got.error))
               ELSE IF FindSpeaker(got.value, narratorName) = 0
               THEN Outcome(FALSE, "none",
                            createError("ListEmotions",
                                        PlainError(<<"NarratorNotFound">>)))
               ELSE Outcome(TRUE, "none", <<>>),
               ListSpeakers)

\* VoiceVoxAdapter.getDefaultEmotions
getDefaultEmotions(fault, at, speakers) ==
    LET got == GetSpeakersOfEngine(fault, at, speakers)
    IN  Issued(IF ~got.ok
               THEN Outcome(FALSE, HitOf(got.error),
                            createError("ListDefaultEmotions", got.error))
               ELSE IF Len(got.value) = 0
               THEN Outcome(FALSE, "none",
                            createError("ListDefaultEmotions",
                                        PlainError(<<"NoSpeakers">>)))
               ELSE Outcome(TRUE, "none", <<>>),
               ListSpeakers)

\* targetSpeaker.styles.find(style => style.name === emotionName): the
\* index, 0 when there is none
FindStyle(styles, name) ==
    IF \E i \in 1..Len(styles) : styles[i].name = name
    THEN CHOOSE i \in 1..Len(styles) :
            /\ styles[i].name = name
            /\ \A j \in 1..(i - 1) : styles[j].name # name
    ELSE 0

\* _getSpeakerId throwing when the emotion is not among the styles
GetSpeakerIdStrict(fault, at, speakers, narratorName, emotionName) ==
    LET got == GetSpeakersOfEngine(fault, at, speakers)
        found == IF narratorName # "" THEN FindSpeaker(got.value, narratorName)
                 ELSE IF Len(got.value) > 0 THEN 1 ELSE 0
    IN  IF ~got.ok THEN got
        ELSE IF found = 0
        THEN [ok |-> FALSE, issued |-> TRUE, value |-> <<>>,
              error |-> PlainError(IF narratorName # "" THEN <<"NarratorNotFound">>
                                   ELSE <<"NoSpeakers">>)]
        ELSE LET styles == got.value[found].styles
                 foundStyle == FindStyle(styles, emotionName)
             IN  IF emotionName # "" /\ foundStyle = 0
                 THEN [ok |-> FALSE, issued |-> TRUE, value |-> <<>>,
                       error |-> PlainError(<<"EmotionNotFound">>)]
                 ELSE [ok |-> TRUE, issued |-> TRUE,
                       value |-> <<styles[IF foundStyle # 0 THEN foundStyle ELSE 1].id>>,
                       error |-> NoError]

\* VoiceVoxAdapter._getSpeakerId: the speakers are listed, then the narrator
\* is looked up (the first speaker when no name is given), then the style
\* named by the emotion (the first style when no name is given or none
\* matches); value holds the id of the style
GetSpeakerId(fault, at, speakers, narratorName, emotionName) ==
    LET got == GetSpeakersOfEngine(fault, at, speakers)
        found == IF narratorName # "" THEN FindSpeaker(got.value, narratorName)
                 ELSE IF Len(got.value) > 0 THEN 1 ELSE 0
    IN  IF ~got.ok THEN got
        ELSE IF found = 0
        THEN [ok |-> FALSE, issued |-> TRUE, value |-> <<>>,
              error |-> PlainError(IF narratorName # "" THEN <<"NarratorNotFound">>
                                   ELSE <<"NoSpeakers">>)]
        ELSE LET styles == got.value[found].styles
                 foundStyle == IF emotionName # "" THEN FindStyle(styles, emotionName)
                               ELSE 0
                 targetStyle == IF foundStyle # 0 THEN styles[foundStyle] ELSE styles[1]
             IN  [ok |-> TRUE, issued |-> TRUE, value |-> <<targetStyle.id>>,
                  error |-> NoError]

\* VoiceVoxAdapter._preprocessText followed by the POST /audio_query
PostAudioQueryToEngine(fault, at, text) ==
    IF text = ""
    THEN [ok |-> FALSE, issued |-> FALSE, value |-> <<>>,
          error |-> PlainError(<<"ValidTextRequired">>)]
    ELSE Http("audio_query", fault, at, <<>>)

\* the requests issued for a step of synthesize
CallsOf(step, call, speaker) ==
    IF step.issued THEN <<Call(call, speaker)>> ELSE <<>>

\* what synthesize rejects with
SynthesizeFailed(error, calls) ==
    Issued(Outcome(FALSE, HitOf(error), createError("Synthesis", error)), calls)

\* synthesize going on to POST /synthesis after a failed POST /audio_query
synthesizeUnguarded(fault, at, speakers, text, narrator, emotion) ==
    LET id == GetSpeakerId(fault, at, speakers, narrator, emotion)
    IN  IF ~id.ok THEN SynthesizeFailed(id.error, ListSpeakers)
        ELSE
        LET speakerId == id.value
            query == PostAudioQueryToEngine(fault, at, text)
            queried == ListSpeakers \o CallsOf(query, "audio_query", speakerId)
            audio == Http("synthesis", fault, at, <<>>)
            all == queried \o CallsOf(audio, "synthesis", speakerId)
        IN  IF ~audio.ok THEN SynthesizeFailed(audio.error, all)
            ELSE [Issued(Outcome(TRUE, "none", <<>>), all) EXCEPT !.audio = TRUE]

\* VoiceVoxAdapter.synthesize: _getSpeakerId, _createAudioQuery,
\* _adjustAudioQueryParameters, _performSynthesis; the first Error ends it
synthesize(fault, at, speakers, text, narrator, emotion) ==
    LET id == GetSpeakerId(fault, at, speakers, narrator, emotion)
    IN  IF ~id.ok THEN SynthesizeFailed(id.error, ListSpeakers)
        ELSE
        LET speakerId == id.value
            query == PostAudioQueryToEngine(fault, at, text)
            queried == ListSpeakers \o CallsOf(query, "audio_query", speakerId)
        IN  IF ~query.ok THEN SynthesizeFailed(query.error, queried)
            ELSE
            LET audio == Http("synthesis", fault, at, <<>>)
                all == queried \o CallsOf(audio, "synthesis", speakerId)
            IN  IF ~audio.ok THEN SynthesizeFailed(audio.error, all)
                ELSE [Issued(Outcome(TRUE, "none", <<>>), all) EXCEPT !.audio = TRUE]

\* VoiceVoxAdapter.createAudioQuery
createAudioQuery(fault, at, text) ==
    LET query == PostAudioQueryToEngine(fault, at, text)
    IN  Issued(IF ~query.ok
               THEN Outcome(FALSE, HitOf(query.error),
                            handleApiError(query.error, "CreateAudioQuery"))
               ELSE Outcome(TRUE, "none", <<>>),
               CallsOf(query, "audio_query", <<>>))

\* the engine's answers to GET /speakers
Speaker(name, id) ==
    [name |-> name,
     styles |-> <<[name |-> "normal", id |-> id], [name |-> "happy", id |-> id + 1]>>]
EngineSpeakers == {<<>>, <<Speaker("s1", 0)>>, <<Speaker("s1", 0), Speaker("s2", 2)>>}
EngineConditions ==
    {[fault |-> "none", at |-> "none"]}
    \cup [fault : EngineFaults, at : {"speakers", "audio_query", "synthesis"}]
RemoteNarrators == {"", "s1", "s2"}
RemoteTexts == {"", "a"}
RemoteEmotions == {"", "happy", "sad"}

InitAdapter ==
    /\ listNarrator = (CHOOSE c \in MainCatalogs : TRUE).narrators
    /\ listEmotion = (CHOOSE c \in MainCatalogs : TRUE).emotions
    /\ impl = "inline"
    /\ rateLimiter = [c \in Clients |-> <<>>]
    /\ now = 0
    /\ uuidNext = 0
    /\ disk = {}
    /\ phase = "idle"
    /\ req = NoReq
    /\ resp = NoResp
    /\ run = NoRun
    /\ accepted = [c \in Clients |-> <<>>]
    /\ check = NoCheck
    /\ env = [NoEngineEnv EXCEPT !.VOICEVOX_ENGINE_ENABLED = TRUE,
                                 !.VOICEVOX_ENGINE_URL = TRUE]
    /\ voiceVoxAdapter = "adapter"
    /\ remote = NoRemote
    /\ proc = NoExec
    /\ jobs = NoJobs
    /\ files = NoFiles
    /\ held = NoHeld

\* one call of an operation of the adapter, the engine being in condition e
\* with the speakers sp
AdapterCall(op, e, sp, narrator, emotion, text, out) ==
    /\ voiceVoxAdapter = "adapter"
    /\ remote' = [op |-> op, narrator |-> narrator, emotion |-> emotion,
                  text |-> text, speakers |-> sp, fault |-> e.fault, at |-> e.at,
                  hit |-> out.hit, ok |-> out.ok, message |-> out.message,
                  calls |-> out.calls, audio |-> out.audio]
    /\ UNCHANGED <<impl, listNarrator, listEmotion, rateLimiter, now, uuidNext, disk,
                   phase, req, resp, run, accepted, check, env, voiceVoxAdapter,
                   proc, jobs, files, held>>

CallGetNarrators ==
    \E e \in EngineConditions, sp \in EngineSpeakers :
        AdapterCall("getNarrators", e, sp, "", "", "", getNarrators(e.fault, e.at, sp))

CallGetEmotions ==
    \E e \in EngineConditions, sp \in EngineSpeakers, n \in RemoteNarrators :
        AdapterCall("getEmotions", e, sp, n, "", "", getEmotions(e.fault, e.at, sp, n))

CallGetDefaultEmotions ==
    \E e \in EngineConditions, sp \in EngineSpeakers :
        AdapterCall("getDefaultEmotions", e, sp, "", "", "",
                    getDefaultEmotions(e.fault, e.at, sp))

CallSynthesize ==
    \E e \in EngineConditions, sp \in EngineSpeakers, n \in RemoteNarrators,
       m \in RemoteEmotions, t \in RemoteTexts :
        AdapterCall("synthesize", e, sp, n, m, t,
                    synthesize(e.fault, e.at, sp, t, n, m))

CallCreateAudioQuery ==
    \E e \in EngineConditions, t \in RemoteTexts :
        AdapterCall("createAudioQuery", e, <<>>, "", "", t,
                    createAudioQuery(e.fault, e.at, t))

NextAdapter ==
    \/ CallGetNarrators
    \/ CallGetEmotions
    \/ CallGetDefaultEmotions
    \/ CallSynthesize
    \/ CallCreateAudioQuery

SpecAdapter == InitAdapter /\ [][NextAdapter]_vars

(***************************************************************************)
(* One call of SecurityUtils.safeExec, event by event: spawn, the data     *)
(* events of stdout, the close and error events of the child, the timer.   *)
(***************************************************************************)
\* CONFIG.TIMEOUTS.COMMAND_EXECUTION (30000 ms), in ticks of the model
COMMAND_EXECUTION == 2
\* the code of the close event of a child that a signal ended (null), or
\* that could not be started
NO_EXIT_CODE == -1

ExecPlans ==
    [kind : {"ok", "exit", "hang"},
     out : {<<>>, <<<<" ", "A">>>>, <<<<>>, <<"A", " ">>, <<"B">>>>},
     err : {<<>>, <<"e">>},
     code : {0, 1}]
    \cup [kind : {"spawn"}, out : {<<>>}, err : {<<>>}, code : {NO_EXIT_CODE}]

InitExec ==
    /\ listNarrator = (CHOOSE c \in MainCatalogs : TRUE).narrators
    /\ listEmotion = (CHOOSE c \in MainCatalogs : TRUE).emotions
    /\ impl = "inline"
    /\ rateLimiter = [c \in Clients |-> <<>>]
    /\ now = 0
    /\ uuidNext = 0
    /\ disk = {}
    /\ phase = "idle"
    /\ req = NoReq
    /\ resp = NoResp
    /\ run = NoRun
    /\ accepted = [c \in Clients |-> <<>>]
    /\ check = NoCheck
    /\ env = NoEngineEnv
    /\ voiceVoxAdapter = "null"
    /\ remote = NoRemote
    /\ proc = NoExec
    /\ jobs = NoJobs
    /\ files = NoFiles
    /\ held = NoHeld

ExecUnchanged ==
    UNCHANGED <<impl, listNarrator, listEmotion, rateLimiter, now, uuidNext, disk,
                phase, req, resp, run, accepted, check, env, voiceVoxAdapter, remote,
                jobs, files, held>>

\* resolve(value) and reject(new Error(message)): a settled promise stays as
\* it is
Resolve(e, value) ==
    IF e.promise = "pending" THEN [e EXCEPT !.promise = "resolved", !.value = value]
    ELSE e

Reject(e, message) ==
    IF e.promise = "pending" THEN [e EXCEPT !.promise = "rejected", !.message = message]
    ELSE e

\* new Promise(...): spawn(command, args), the handlers, setTimeout
ExecSpawn ==
    /\ proc.promise = "none"
    /\ \E plan \in ExecPlans :
           /\ plan.kind = "ok" => plan.code = 0
           /\ plan.kind = "exit" => plan.code # 0
           /\ plan.kind = "hang" => plan.code = 0 /\ plan.err = <<>>
           /\ proc' = [NoExec EXCEPT !.plan = plan.kind, !.rest = plan.out,
                                      !.stderr = plan.err, !.code = plan.code,
                                      !.child = "running", !.timer = "armed",
                                      !.promise = "pending"]
    /\ ExecUnchanged

\* child.stdout.on('data'): stdout += data.toString()
ExecStdout ==
    /\ proc.child = "running"
    /\ proc.plan # "spawn"
    /\ proc.rest # <<>>
    /\ proc' = [proc EXCEPT !.stdout = Append(@, Head(proc.rest)),
                            !.rest = Tail(proc.rest)]
    /\ ExecUnchanged

\* child.on('close'): the process has ended by itself, its output read to
\* the end, or a signal has ended it
ExecClose ==
    /\ proc.child = "running"
    /\ \/ /\ proc.plan \in {"ok", "exit"}
          /\ proc.rest = <<>>
          /\ ~proc.killed
          /\ proc' = [(IF proc.code # 0
                       THEN Reject(proc, <<"CommandError">> \o proc.stderr)
                       ELSE Resolve(proc, StdoutTrim(proc.stdout)))
                      EXCEPT !.child = "closed"]
       \/ /\ proc.killed
          /\ proc' = [Reject([proc EXCEPT !.code = NO_EXIT_CODE],
                             <<"CommandError">> \o proc.stderr)
                      EXCEPT !.child = "closed"]
    /\ ExecUnchanged

\* child.on('error'): the process could not be started; the event is
\* emitted on the next tick of the event loop, before any timer
ExecError ==
    /\ proc.child = "running"
    /\ proc.plan = "spawn"
    /\ proc' = [Reject(proc, <<"CommandFailed">>) EXCEPT !.child = "failed"]
    /\ ExecUnchanged

\* time passes while the timer is pending
ExecTick ==
    /\ proc.timer = "armed"
    /\ ~(proc.plan = "spawn" /\ proc.child = "running")
    /\ proc.elapsed < COMMAND_EXECUTION
    /\ proc' = [proc EXCEPT !.elapsed = @ + 1]
    /\ ExecUnchanged

\* the callback that kills the child and leaves the rejection to the close
\* event
ExecTimeoutKillOnly ==
    /\ proc.timer = "armed"
    /\ proc.elapsed = COMMAND_EXECUTION
    /\ proc' = [proc EXCEPT !.timer = "fired", !.killed = (proc.child = "running")]
    /\ ExecUnchanged

\* the callback of setTimeout, which nothing clears: child.kill(), reject
ExecTimeout ==
    /\ proc.timer = "armed"
    /\ proc.elapsed = COMMAND_EXECUTION
    /\ proc' = [Reject(proc, <<"CommandTimeout">>)
                EXCEPT !.timer = "fired", !.killed = (proc.child = "running")]
    /\ ExecUnchanged

NextExec ==
    \/ ExecSpawn
    \/ ExecStdout
    \/ ExecClose
    \/ ExecError
    \/ ExecTick
    \/ ExecTimeout

\* the event loop runs the next-tick callbacks, and the timer when it is due
SpecExec ==
    /\ InitExec
    /\ [][NextExec]_vars
    /\ WF_vars(ExecError)
    /\ WF_vars(ExecTick)
    /\ WF_vars(ExecTimeout)

(***************************************************************************)
(* The start of the process under every environment, and the requests for  *)
(* the three capabilities (narrator list, emotion list, synthesis)         *)
(***************************************************************************)
InitStartup ==
    /\ listNarrator = (CHOOSE c \in MainCatalogs : TRUE).narrators
    /\ listEmotion = (CHOOSE c \in MainCatalogs : TRUE).emotions
    /\ impl = "inline"
    /\ rateLimiter = [c \in Clients |-> <<>>]
    /\ now = 0
    /\ uuidNext = 0
    /\ disk = {}
    /\ phase = "starting"
    /\ req = NoReq
    /\ resp = NoResp
    /\ run = NoRun
    /\ accepted = [c \in Clients |-> <<>>]
    /\ check = NoCheck
    /\ env \in Envs
    /\ voiceVoxAdapter = "null"
    /\ remote = NoRemote
    /\ proc = NoExec
    /\ jobs = NoJobs
    /\ files = NoFiles
    /\ held = NoHeld

\* the module body of index.js up to app.listen: the adapter is constructed
\* when the engine is enabled, and the constructor throws when the URL is
\* missing; nothing catches the Error, so the process ends before app.listen
Startup ==
    /\ phase = "starting"
    /\ IF env.VOICEVOX_ENGINE_ENABLED
       THEN IF env.VOICEVOX_ENGINE_URL
            THEN voiceVoxAdapter' = "adapter" /\ phase' = "idle"
            ELSE voiceVoxAdapter' = "null" /\ phase' = "crashed"
       ELSE voiceVoxAdapter' = "null" /\ phase' = "idle"
    /\ UNCHANGED <<impl, listNarrator, listEmotion, rateLimiter, now, uuidNext, disk,
                   req, resp, run, accepted, check, env, remote, proc, jobs, files, held>>

CapabilityRequests ==
    ApiGetRequests
    \cup {[BaseReq("synthesize", ip) EXCEPT !.text = t, !.narrator = n] :
            ip \in Clients, t \in Texts, n \in NarratorParams}

CapabilityRequest ==
    \E rq \in CapabilityRequests :
        \E say \in OutcomesFor(rq) : Handle(rq, say, say.unlinkOk)

NextStartup ==
    \/ Startup
    \/ CapabilityRequest
    \/ Deliver

SpecStartup == InitStartup /\ [][NextStartup]_vars

(***************************************************************************)
(* The rate limiter on its own: calls of SecurityUtils.checkRateLimit with *)
(* one limit and one window, by several clients, as time passes            *)
(***************************************************************************)
MaxLimit == 2
MaxWindow == 2
MaxLimiterTime == 3
LimiterClients == {"c1", "c2"}

InitLimiter ==
    /\ listNarrator = (CHOOSE c \in MainCatalogs : TRUE).narrators
    /\ listEmotion = (CHOOSE c \in MainCatalogs : TRUE).emotions
    /\ impl = "inline"
    /\ rateLimiter = [c \in LimiterClients |-> <<>>]
    /\ now = 0
    /\ uuidNext = 0
    /\ disk = {}
    /\ phase = "idle"
    /\ req = NoReq
    /\ resp = NoResp
    /\ run = NoRun
    /\ accepted = [c \in LimiterClients |-> <<>>]
    /\ \E l \in 1..MaxLimit, w \in 1..MaxWindow :
           check = [NoCheck EXCEPT !.max = l, !.window = w]
    /\ env = NoEngineEnv
    /\ voiceVoxAdapter = "null"
    /\ remote = NoRemote
    /\ proc = NoExec
    /\ jobs = NoJobs
    /\ files = NoFiles
    /\ held = NoHeld

\* one call SecurityUtils.checkRateLimit(ip, maxRequests, windowMs)
CheckRateLimit ==
    \E ip \in LimiterClients :
        \E rl \in {checkRateLimit(ip, check.max, check.window)} :
            /\ rateLimiter' = rl.limiter
            /\ accepted' = IF rl.ok THEN Accept(ip, "ANY") ELSE accepted
            /\ check' = [check EXCEPT
                            !.called = TRUE, !.ip = ip, !.ok = rl.ok,
                            !.before = Len(AcceptedWithin(ip, now, check.window)),
                            !.refused = IF rl.ok THEN @ ELSE @ \cup {ip}]
            /\ UNCHANGED <<impl, listNarrator, listEmotion, now, uuidNext, disk,
                           phase, req, resp, run, env, voiceVoxAdapter, remote,
                           proc, jobs, files, held>>

\* Date.now() advances between two calls
LimiterTick ==
    /\ now < MaxLimiterTime
    /\ now' = now + 1
    /\ accepted' = Recent(now + 1, check.window)
    /\ UNCHANGED <<impl, listNarrator, listEmotion, rateLimiter, uuidNext, disk,
                   phase, req, resp, run, quietVars>>

NextLimiter ==
    \/ CheckRateLimit
    \/ LimiterTick

SpecLimiter == InitLimiter /\ [][NextLimiter]_vars

(***************************************************************************)
(* The compatible workflow: /audio_query, then /synthesis with its answer  *)
(***************************************************************************)
InitRoundTrip == Init

\* the body a client makes of a held audio query: the query as it came,
\* with the speaker of the /audio_query request as the query parameter
RoundTripRequest(h) ==
    [BaseReq("synthesis", h.ip) EXCEPT
        !.speaker = h.speaker,
        !.kana = h.query.kana,
        !.accent_phrases = h.query.accent_phrases,
        !.speedScale = h.query.speedScale,
        !.pitchScale = h.query.pitchScale]

\* the client receives the answer of /audio_query and keeps the audio query
HoldQuery ==
    /\ phase = "done"
    /\ req.ep = "audio_query"
    /\ resp.status = 200
    /\ held' = [given |-> TRUE, ip |-> req.ip, text |-> Trim(req.text.s),
                speaker |-> req.speaker, query |-> resp.body]
    /\ phase' = "idle"
    /\ req' = NoReq
    /\ resp' = NoResp
    /\ run' = NoRun
    /\ UNCHANGED <<impl, listNarrator, listEmotion, rateLimiter, now, uuidNext, disk,
                   accepted, check, env, voiceVoxAdapter, remote, proc, jobs, files>>

\* the client posts the audio query it holds to /synthesis
PostHeldQuery ==
    /\ held.given
    /\ \E say \in SayOutcomes : Handle(RoundTripRequest(held), say, say.unlinkOk)

NextRoundTrip ==
    \/ PostAudioQuery
    \/ HoldQuery
    \/ PostHeldQuery
    \/ Tick
    \/ Deliver

SpecRoundTrip == InitRoundTrip /\ [][NextRoundTrip]_vars

(***************************************************************************)
(* The temp file of a synthesis, with requests in flight together          *)
(*                                                                         *)
(* The four synthesis handlers share one tail: uuidv4(), validateFilePath, *)
(* await safeExec, existsSync, readFileSync, send, fs.unlink.  Each action *)
(* below is one synchronous stretch of it, or one step of the child        *)
(* process or of the file system, so that the stretches of different       *)
(* requests interleave as the event loop lets them.                        *)
(***************************************************************************)
JobEndpoints == {"synthesize", "synthesis"}

\* what the child process will do: exit with code 0, exit non-zero, fail to
\* spawn, or run until the timer kills it
JobPlans == {"ok", "exit", "spawn", "timeout"}

InitJobs ==
    /\ listNarrator = (CHOOSE c \in MainCatalogs : TRUE).narrators
    /\ listEmotion = (CHOOSE c \in MainCatalogs : TRUE).emotions
    /\ impl \in Impls
    /\ rateLimiter = [c \in Clients |-> <<>>]
    /\ now = 0
    /\ uuidNext = 0
    /\ disk = {}
    /\ phase = "idle"
    /\ \E ep \in JobEndpoints : req = [NoReq EXCEPT !.ep = ep]
    /\ resp = NoResp
    /\ run = NoRun
    /\ accepted = [c \in Clients |-> <<>>]
    /\ check = NoCheck
    /\ env = NoEngineEnv
    /\ voiceVoxAdapter = "null"
    /\ remote = NoRemote
    /\ proc = NoExec
    /\ jobs = NoJobs
    /\ files = NoFiles
    /\ held = NoHeld

JobsUnchanged ==
    UNCHANGED <<impl, listNarrator, listEmotion, rateLimiter, now, disk, phase,
                req, resp, run, accepted, check, env, voiceVoxAdapter, remote,
                proc, held>>

\* the catch block of the handler the requests are in (req.ep: the endpoint
\* all of them were sent to)
JobCatch(message) ==
    IF impl = "inline"
    THEN IF req.ep = "synthesize" THEN InlineSynthesizeCatch(message)
         ELSE InlineSynthesisCatch(message)
    ELSE IF req.ep = "synthesize" THEN handleValidationError(message)
         ELSE createVoiceVoxCompatibilityError(message)

\* the catch block sends the error response
JobAnswer(job, message) ==
    [job EXCEPT !.pc = "answered", !.resp = JobCatch(message),
                !.sent = @ + 1]

\* the handler after await safeExec(...): a rejection goes to the catch
\* block; otherwise existsSync, readFileSync, the send and the fs.unlink call
Continue(job) ==
    IF job.promise = "rejected" THEN JobAnswer(job, job.message)
    ELSE IF files[job.outputPath] = 0
    THEN JobAnswer([job EXCEPT !.trace = <<"existsSync">>], <<"NoAudioFile">>)
    ELSE [job EXCEPT
            !.pc = "returned",
            !.wavBuffer = files[job.outputPath],
            !.resp = SuccessReply([kind |-> "audio",
                                   data |-> <<"bytes", files[job.outputPath]>>,
                                   filename |-> job.outputPath[2]]),
            !.sent = @ + 1,
            !.trace = <<"existsSync", "readFileSync", "send", "unlink">>,
            !.unlink = "pending"]

\* the handler resumed at every settling call, as if the promise could
\* settle twice
AfterEverySettle(before, after) == Continue(after)

\* the handler resumes once, when the pending promise settles; a resolve or
\* reject of a settled promise resumes nothing
After(before, after) ==
    IF before.promise = "pending" THEN Continue(after) ELSE after

\* every request writing to the same file name
JobStartFixedName(j, plan) ==
    /\ jobs[j].pc = "idle"
    /\ \A k \in 1..(j - 1) : jobs[k].pc # "idle"
    /\ uuidNext < MaxJobs
    /\ jobs' = [jobs EXCEPT ![j] =
                    [@ EXCEPT !.pc = "awaiting",
                              !.outputPath = <<TEMP_DIR, 0>>, !.plan = plan,
                              !.child = IF plan = "spawn" THEN "failed"
                                        ELSE "running",
                              !.timer = "armed", !.promise = "pending"]]
    /\ uuidNext' = uuidNext + 1
    /\ UNCHANGED files
    /\ JobsUnchanged

\* the handler up to await safeExec(...): the output path is generated and
\* checked, the child is spawned and the timer armed
JobStart(j, plan) ==
    /\ jobs[j].pc = "idle"
    /\ \A k \in 1..(j - 1) : jobs[k].pc # "idle"
    /\ uuidNext < MaxJobs
    /\ LET outputId == uuidNext
           checked == validateFilePath(<<TEMP_DIR, outputId>>, TEMP_DIR)
       IN  jobs' = [jobs EXCEPT ![j] =
                      IF ~checked.ok
                      THEN JobAnswer(@, checked.message)
                      ELSE [@ EXCEPT !.pc = "awaiting",
                                     !.outputPath = checked.value, !.plan = plan,
                                     !.child = IF plan = "spawn" THEN "failed"
                                               ELSE "running",
                                     !.timer = "armed", !.promise = "pending"]]
    /\ uuidNext' = uuidNext + 1
    /\ UNCHANGED files
    /\ JobsUnchanged

\* the binary writes the file named by its --out argument
BinaryWrite(j) ==
    /\ jobs[j].child \in {"running", "killed"}
    /\ files[jobs[j].outputPath] # j
    /\ files' = [files EXCEPT ![jobs[j].outputPath] = j]
    /\ UNCHANGED <<jobs, uuidNext>>
    /\ JobsUnchanged

\* child.on('close') of a child that exited by itself
BinaryClose(j) ==
    /\ jobs[j].child = "running"
    /\ jobs[j].plan \in {"ok", "exit"}
    /\ LET result == safeExec(ExecAnswer(jobs[j].plan, <<>>, <<>>))
           closed == [jobs[j] EXCEPT !.child = "closed"]
       IN  jobs' = [jobs EXCEPT ![j] =
                      After(closed, IF result.ok THEN Resolve(closed, result.value)
                                    ELSE Reject(closed, result.message))]
    /\ UNCHANGED <<files, uuidNext>>
    /\ JobsUnchanged

\* child.on('error'): the child could not be spawned
JobSpawnError(j) ==
    /\ jobs[j].child = "failed"
    /\ LET result == safeExec(ExecAnswer("spawn", <<>>, <<>>))
           closed == [jobs[j] EXCEPT !.child = "closed"]
       IN  jobs' = [jobs EXCEPT ![j] = After(closed, Reject(closed, result.message))]
    /\ UNCHANGED <<files, uuidNext>>
    /\ JobsUnchanged

\* the setTimeout callback: child.kill() and reject; it also runs after the
\* child closed, the timer is never cleared
JobTimeout(j) ==
    /\ jobs[j].timer = "armed"
    /\ jobs[j].child = "closed" \/ jobs[j].plan = "timeout"
    /\ LET result == safeExec(ExecAnswer("timeout", <<>>, <<>>))
           killed == [jobs[j] EXCEPT
                        !.timer = "fired",
                        !.child = IF @ = "running" THEN "killed" ELSE @]
       IN  jobs' = [jobs EXCEPT ![j] = After(killed, Reject(killed, result.message))]
    /\ UNCHANGED <<files, uuidNext>>
    /\ JobsUnchanged

\* child.on('close') of the killed child: code is null
JobLateClose(j) ==
    /\ jobs[j].child = "killed"
    /\ LET result == safeExec(ExecAnswer("exit", <<>>, <<>>))
           closed == [jobs[j] EXCEPT !.child = "closed"]
       IN  jobs' = [jobs EXCEPT ![j] = After(closed, Reject(closed, result.message))]
    /\ UNCHANGED <<files, uuidNext>>
    /\ JobsUnchanged

\* a failed deletion turned into an error response
UnlinkCallbackEscalating(j, ok) ==
    /\ jobs[j].unlink = "pending"
    /\ jobs' = [jobs EXCEPT ![j] =
                    IF ok THEN [@ EXCEPT !.unlink = "done"]
                    ELSE JobAnswer([@ EXCEPT !.unlink = "failed"], <<"Unlink">>)]
    /\ files' = IF ok THEN [files EXCEPT ![jobs[j].outputPath] = 0] ELSE files
    /\ UNCHANGED uuidNext
    /\ JobsUnchanged

\* fs.unlink completes and its callback logs the outcome
UnlinkCallback(j, ok) ==
    /\ jobs[j].unlink = "pending"
    /\ jobs' = [jobs EXCEPT ![j].unlink = IF ok THEN "done" ELSE "failed"]
    /\ files' = IF ok THEN [files EXCEPT ![jobs[j].outputPath] = 0] ELSE files
    /\ UNCHANGED uuidNext
    /\ JobsUnchanged

NextJobs ==
    \/ \E j \in JobIds, plan \in JobPlans : JobStart(j, plan)
    \/ \E j \in JobIds : BinaryWrite(j)
    \/ \E j \in JobIds : BinaryClose(j)
    \/ \E j \in JobIds : JobSpawnError(j)
    \/ \E j \in JobIds : JobTimeout(j)
    \/ \E j \in JobIds : JobLateClose(j)
    \/ \E j \in JobIds, ok \in BOOLEAN : UnlinkCallback(j, ok)

\* every event of a child process, of a timer and of the file system is
\* eventually delivered
JobsFairness ==
    \A j \in JobIds :
        /\ WF_vars(BinaryClose(j))
        /\ WF_vars(JobSpawnError(j))
        /\ WF_vars(JobTimeout(j))
        /\ WF_vars(JobLateClose(j))
        /\ WF_vars(\E ok \in BOOLEAN : UnlinkCallback(j, ok))

SpecJobs == InitJobs /\ [][NextJobs]_vars /\ JobsFairness

(***************************************************************************)
(* Properties of the flat id space (checked under SpecCatalog)             *)
(***************************************************************************)
RECURSIVE StyleIds(_)
\* the ids of a speakers array, in enumeration order
StyleIds(speakers) ==
    IF speakers = <<>> THEN <<>>
    ELSE [i \in 1..Len(Head(speakers).styles) |-> Head(speakers).styles[i].id]
         \o StyleIds(Tail(speakers))

\* the request was answered by GET /speakers with a list
SpeakersAnswered == phase = "done" /\ req.ep = "speakers" /\ resp.status = 200

\* C1: the ids of the styles that GET /speakers lists are, in enumeration
\* order, BASE_SPEAKER_ID, BASE_SPEAKER_ID + 1, ..., BASE_SPEAKER_ID + K - 1
\* for the K styles listed: no gap, no duplicate, strictly increasing,
\* whatever the catalog, narrators whose emotion listing fails included.
C1_IdsContiguous ==
    SpeakersAnswered =>
        LET ids == StyleIds(resp.body.speakers)
        IN  \A i \in 1..Len(ids) : ids[i] = BASE_SPEAKER_ID + (i - 1)

\* a list of two speakers, the first with the substitute style of a failed
\* emotion listing, the second with two styles
C1_Witness ==
    /\ SpeakersAnswered
    /\ Len(resp.body.speakers) = 2
    /\ resp.body.speakers[1].styles
         = <<[name |-> DEFAULT_STYLE_LABEL, id |-> BASE_SPEAKER_ID]>>
    /\ Len(resp.body.speakers[2].styles) = 2
    /\ ~safeExec(EmotionAnswer(resp.body.speakers[1].name)).ok

\* the list GET /speakers gives for the catalog (empty when --list-narrator
\* fails)
SpeakersListed ==
    LET result == safeExec(listNarrator)
    IN  IF ~result.ok THEN <<>>
        ELSE IF impl = "inline"
        THEN InlineSpeakersLoop(ParseLines(result.value), BASE_SPEAKER_ID)
        ELSE SpeakersLoop(ParseLines(result.value), BASE_SPEAKER_ID)

\* the request resolved its speaker id against the catalog
Resolved ==
    /\ phase = "done"
    /\ req.ep \in {"audio_query", "synthesis"}
    /\ run.looked

\* C2: for every style that GET /speakers lists with id i under narrator n
\* with style name e, the resolver given i returns exactly {narrator n,
\* emotion e}, the catalog being the same for both.
C2_RoundTrip ==
    Resolved =>
        \A k \in 1..Len(SpeakersListed) :
            \A i \in 1..Len(SpeakersListed[k].styles) :
                SpeakersListed[k].styles[i].id = req.speaker.n
                    => run.info = Found(SpeakersListed[k].name,
                                        SpeakersListed[k].styles[i].name)

\* the number K of styles of the catalog
StyleCount == Len(StyleIds(SpeakersListed))

\* the id the request asks for is none of BASE_SPEAKER_ID .. BASE_SPEAKER_ID + K - 1
Unassigned ==
    \/ req.speaker.n < BASE_SPEAKER_ID
    \/ req.speaker.n >= BASE_SPEAKER_ID + StyleCount

\* C3: for an id the catalog does not assign (below BASE_SPEAKER_ID, or
\* BASE_SPEAKER_ID + K and above) the resolver returns the sentinel and
\* throws nothing; /audio_query and /synthesis answer 422 "speaker id not
\* found" and the binary is not run with --say.
C3_UnassignedNotFound ==
    (Resolved /\ Unassigned) =>
        /\ ~run.info.found
        /\ run.thrown = <<>>
        /\ resp.status = 422
        /\ resp.msg = "speaker_not_found"
        /\ Includes(resp.loc, "speaker")
        /\ run.say = <<>>

\* /synthesis asked for the id just past the last one of a catalog of at
\* least two styles and was refused
C3_Witness ==
    /\ Resolved
    /\ req.ep = "synthesis"
    /\ StyleCount >= 2
    /\ req.speaker.n = BASE_SPEAKER_ID + StyleCount
    /\ resp.status = 422
    /\ resp.msg = "speaker_not_found"

(***************************************************************************)
(* Properties of the synthesis requests (checked under Spec)               *)
(***************************************************************************)
\* the handler of a synthesis endpoint ran the binary with --say
SayInvoked ==
    /\ phase = "done"
    /\ req.ep \in {"synthesize", "synthesis"}
    /\ run.say # <<>>

\* the number a request gives for a parameter, dflt when it gives none
Supplied(val, dflt) == IF val.t = "num" THEN val.n ELSE dflt

\* C4: the argument vector of a synthesis is exactly --say text --out path
\* --narrator n --emotion e', e' being e when e contains "=" and e followed
\* by "=50" otherwise; then --speed s if and only if s is not 100; then
\* --pitch p if and only if p is not 0.  On /api/synthesize, text, s and p
\* are the trimmed text and the speed and pitch of the body (100 and 0
\* when the body gives none).
C4_ArgVector ==
    SayInvoked =>
        LET a  == run.say[1]
            e  == run.info.emotion
            e1 == IF \E i \in 1..Len(e) : e[i] = "=" THEN e ELSE e \o <<"=", "5", "0">>
            sp == run.params.speed
            pi == run.params.pitch
        IN  /\ Len(run.say) = 1
            /\ Len(a) >= 8
            /\ a[4][1] = TEMP_DIR
            /\ SubSeq(a, 1, 8) = <<"--say", run.params.text, "--out", a[4],
                                   "--narrator", run.info.narrator, "--emotion", e1>>
            /\ SubSeq(a, 9, Len(a))
                 = (IF sp # 100 THEN <<"--speed", sp>> ELSE <<>>)
                   \o (IF pi # 0 THEN <<"--pitch", pi>> ELSE <<>>)
            /\ req.ep = "synthesize" =>
                    /\ run.params.text = Trim(req.text.s)
                    /\ sp = Supplied(req.speed, 100)
                    /\ pi = Supplied(req.pitch, 0)

\* /api/synthesize with speed 150 and pitch -20 and the default narrator
\* and emotion ran the binary with both flags
C4_Witness ==
    /\ SayInvoked
    /\ req.ep = "synthesize"
    /\ req.speed = Num(150)
    /\ req.pitch = Num(-20)
    /\ run.say[1] = <<"--say", <<"a">>, "--out", <<TEMP_DIR, 0>>,
                      "--narrator", DEFAULT_NARRATOR,
                      "--emotion", DEFAULT_EMOTION \o <<"=", "5", "0">>,
                      "--speed", 150, "--pitch", -20>>

\* /synthesis took text, speed and pitch from a structured audio query
StructuredNormalized ==
    /\ phase = "done"
    /\ req.ep = "synthesis"
    /\ ~Truthy(req.text)
    /\ run.norm.set

\* r is num / den rounded to the nearest integer, halves up
RoundsTo(r, num, den) ==
    /\ 2 * den * r - den <= 2 * num
    /\ 2 * num < 2 * den * r + den

RECURSIVE MoraChars(_)
\* the characters of the moras of one phrase, in order
MoraChars(moras) ==
    IF moras = <<>> THEN <<>> ELSE Head(moras).text \o MoraChars(Tail(moras))

RECURSIVE PhraseChars(_)
\* the characters of the moras of all phrases, in order
PhraseChars(phrases) ==
    IF phrases = <<>> THEN <<>>
    ELSE MoraChars(Head(phrases).moras) \o PhraseChars(Tail(phrases))

\* the text of a structured audio query: kana when non-empty, the mora
\* texts otherwise
StructuredText ==
    run.norm.text = IF Truthy(req.kana) THEN req.kana.s
                    ELSE PhraseChars(req.accent_phrases)

\* C5 as stated: for a structured audio query the text is the kana field
\* when non-empty and the concatenation of the mora texts otherwise, the
\* speed is round(speedScale * 100) and the pitch round(pitchScale * 50).
C5_Original ==
    StructuredNormalized =>
        /\ StructuredText
        /\ req.speedScale.t = "num" =>
                RoundsTo(run.norm.speed, req.speedScale.n * 100, SPEED_SCALE_UNIT)
        /\ req.pitchScale.t = "num" =>
                RoundsTo(run.norm.pitch, req.pitchScale.n * 50, PITCH_SCALE_UNIT)

\* C5 amended: for a structured audio query the text is the kana field when
\* non-empty and the concatenation of the mora texts otherwise; the speed
\* is round(speedScale * 100) when speedScale is given and not 0, and 100
\* otherwise; the pitch is round(pitchScale * 50) when pitchScale is given
\* and not 0, and 0 otherwise.
C5_Amended ==
    StructuredNormalized =>
        /\ StructuredText
        /\ IF Truthy(req.speedScale)
           THEN RoundsTo(run.norm.speed, req.speedScale.n * 100, SPEED_SCALE_UNIT)
           ELSE run.norm.speed = 100
        /\ IF Truthy(req.pitchScale)
           THEN RoundsTo(run.norm.pitch, req.pitchScale.n * 50, PITCH_SCALE_UNIT)
           ELSE run.norm.pitch = 0

\* speedScale 1.5 and pitchScale 0.4 gave speed 150 and pitch 20
C5_Witness ==
    /\ StructuredNormalized
    /\ 2 * req.speedScale.n = 3 * SPEED_SCALE_UNIT
    /\ 5 * req.pitchScale.n = 2 * PITCH_SCALE_UNIT
    /\ run.norm.speed = 150
    /\ run.norm.pitch = 20

\* /synthesis with a simple-shape body got as far as its speed and pitch
SimpleReached ==
    /\ phase = "done"
    /\ req.ep = "synthesis"
    /\ Truthy(req.text)
    /\ run.looked
    /\ run.info.found

\* C6: a simple-shape /synthesis request passes normalization if and only
\* if the speed it supplies is within 50..200 and the pitch it supplies
\* within -50..50 (a value not supplied counts as 100, resp. 0); the values
\* pass unchanged and every supplied value out of range is rejected.
C6_SimpleRange ==
    SimpleReached =>
        /\ run.norm.set <=> /\ Supplied(req.speed, 100) \in 50..200
                            /\ Supplied(req.pitch, 0) \in -50..50
        /\ run.norm.set => /\ run.norm.speed = Supplied(req.speed, 100)
                           /\ run.norm.pitch = Supplied(req.pitch, 0)

\* the rate limiter let the request in
Admitted == ~Includes(run.thrown, "RateLimit")

\* the body gives a speed outside 50..200 or a pitch outside -50..50
OutOfRange ==
    \/ req.speed.t = "num" /\ (req.speed.n < 50 \/ req.speed.n > 200)
    \/ req.pitch.t = "num" /\ (req.pitch.n < -50 \/ req.pitch.n > 50)

RefusedFor(paramName, msg) ==
    \/ run.thrown = <<paramName, "OutOfRange">>
    \/ resp.msg = msg

\* C8: a range rejection names the bound that was violated: the loc of the
\* error of a speed violation names speed, that of a pitch violation names
\* pitch, on /api/synthesize and /synthesis alike.
C8_NamesViolatedBound ==
    (phase = "done" /\ req.ep \in {"synthesize", "synthesis"}) =>
        /\ RefusedFor("Speed", "speed_range") =>
                Includes(resp.loc, "speed") /\ ~Includes(resp.loc, "pitch")
        /\ RefusedFor("Pitch", "pitch_range") =>
                Includes(resp.loc, "pitch") /\ ~Includes(resp.loc, "speed")

\* the binary exited with code 0 and left no file at the --out path
NoOutput ==
    /\ SayInvoked
    /\ run.outcome.kind = "ok"
    /\ ~run.outcome.wrote

\* C9: when the binary exits successfully without writing the --out file,
\* /api/synthesize and /synthesis answer 500 with the "no output produced"
\* message of type synthesis_error.
C9_NoOutputIs500 ==
    NoOutput =>
        /\ resp.status = 500
        /\ resp.type = "synthesis_error"
        /\ resp.msg \in {"no_output_produced", "synthesis_failed"}

\* an invocation of the binary failed or timed out while the request was
\* served: a --say or a listing whose Error reached the catch block, or the
\* --list-narrator of the resolver
BackendFailure ==
    \/ /\ run.thrown # <<>>
       /\ Head(run.thrown) \in {"CommandError", "CommandFailed", "CommandTimeout"}
    \/ /\ req.ep \in {"audio_query", "synthesis"}
       /\ run.looked
       /\ ~safeExec(listNarrator).ok

\* C10: on every endpoint a failed or timed-out invocation of the binary is
\* answered 500, never 422 and never "speaker id not found"; an id the
\* catalog does not assign is answered 422.
C10_BackendFailureIs500 ==
    phase = "done" =>
        /\ BackendFailure =>
                resp.status = 500 /\ resp.msg # "speaker_not_found"
        /\ (Resolved /\ safeExec(listNarrator).ok /\ Unassigned) =>
                resp.status = 422

(***************************************************************************)
(* Properties of the rate limiter                                          *)
(***************************************************************************)
\* C11: with one limit L and one window W, a call of checkRateLimit is
\* refused exactly when L requests of the same client were accepted less
\* than W ms before it; no client ever has more than L accepted requests
\* less than W ms old; a call made when every accepted request of the client
\* is at least W ms old is accepted
C11_SlidingWindow ==
    /\ check.called =>
           /\ ~check.ok <=> check.before = check.max
           /\ check.before <= check.max
           /\ check.before = 0 => check.ok
    /\ \A c \in DOMAIN accepted :
           check.max > 0 => Len(AcceptedWithin(c, now, check.window)) <= check.max

\* a client that was refused is accepted again once the window has elapsed,
\* while the other client has an accepted request in its window
C11_Witness ==
    /\ check.called /\ check.ok /\ check.before = 0
    /\ check.ip \in check.refused
    /\ \E c \in DOMAIN accepted : c # check.ip /\ Len(accepted[c]) > 0

\* the accepted requests of the method among those of the client that are
\* less than a window old
AcceptedOf(ip, method) ==
    SelectSeq(AcceptedWithin(ip, now, RATE_LIMIT_WINDOW_MS),
              LAMBDA a : a.method = method)

\* C12: a GET request is answered 429 only when the client already had
\* RATE_LIMIT_GET_REQUESTS GET requests accepted in the window, and a POST
\* request only when it had RATE_LIMIT_POST_REQUESTS POST requests accepted
C12_SeparateBudgets ==
    (phase = "done" /\ resp.status = 429) =>
        /\ Method(req) = "GET" =>
               Len(AcceptedOf(req.ip, "GET")) >= RATE_LIMIT_GET_REQUESTS
        /\ Method(req) = "POST" =>
               Len(AcceptedOf(req.ip, "POST")) >= RATE_LIMIT_POST_REQUESTS

(***************************************************************************)
(* Properties of the error responses (checked under Spec)                  *)
(***************************************************************************)
\* C13: every error response has the body {detail: [{loc, msg, type}]} and
\* the status 422, 429 or 500, and a request refused by the rate limiter is
\* answered 429
C13_UniformErrors ==
    phase = "done" =>
        /\ resp.status # 200 =>
               /\ resp.status \in {422, 429, 500}
               /\ resp.body = NoBody
        /\ ~Admitted => resp.status = 429

\* the error responses the handlers themselves send
C13_HandlerErrors ==
    (phase = "done" /\ req.syntax = "json") => C13_UniformErrors

(***************************************************************************)
(* Properties of the backend choice (checked under SpecStartup)            *)
(***************************************************************************)
\* the flag of the capability the endpoint belongs to
RoutedToRemote(ep) ==
    CASE ep = "narrators" -> env.USE_VOICEVOX_FOR_NARRATORS
      [] ep \in {"emotions", "emotions_for"} -> env.USE_VOICEVOX_FOR_EMOTIONS
      [] ep = "synthesize" -> env.USE_VOICEVOX_FOR_SYNTHESIS
      [] OTHER -> FALSE

\* the handler ran the local binary (a listing or --say)
LocalUsed == run.looked \/ run.say # <<>>

\* the handler called an operation of the adapter
RemoteUsed == remote.op # "none"

\* C14: the flag of a capability decides its backend: a request for a
\* capability whose flag selects the remote engine is not served by the
\* local binary, and a successful answer comes from the remote engine when
\* the flag selects it and from the local binary when it does not
C14_FlagDecides ==
    (phase = "done" /\ req.ep \in {"narrators", "emotions", "emotions_for", "synthesize"}) =>
        /\ RoutedToRemote(req.ep) => ~LocalUsed
        /\ resp.status = 200 =>
               IF RoutedToRemote(req.ep) THEN RemoteUsed ELSE LocalUsed /\ ~RemoteUsed

\* the adapter failed to initialize: the engine is enabled and has no URL
InitFailed ==
    /\ phase # "starting"
    /\ env.VOICEVOX_ENGINE_ENABLED /\ ~env.VOICEVOX_ENGINE_URL

\* C15: after a failed initialization of the adapter the server still
\* serves requests, a request for a capability routed to the remote engine
\* is answered with an error, and none is served by the local binary
C15_ServesAfterFailedInit ==
    InitFailed =>
        /\ phase \in {"idle", "done"}
        /\ (phase = "done" /\ RoutedToRemote(req.ep) /\ Admitted) =>
               resp.status # 200 /\ ~LocalUsed

(***************************************************************************)
(* Properties of the adapter (checked under SpecAdapter)                   *)
(***************************************************************************)
\* C16: when a request to the engine is refused (ECONNREFUSED), the Error
\* the adapter's operation reports is the engine-unreachable one, whatever
\* the operation
C16_RefusedIsUnreachable ==
    remote.hit = "ECONNREFUSED" =>
        /\ ~remote.ok
        /\ remote.message = <<"EngineUnreachable">>

\* createAudioQuery, the one operation that reports through _handleApiError
C16_CreateAudioQueryOnly ==
    (remote.hit = "ECONNREFUSED" /\ remote.op = "createAudioQuery") =>
        /\ ~remote.ok
        /\ remote.message = <<"EngineUnreachable">>

(***************************************************************************)
(* Properties of the invocations of the binary (checked under Spec)        *)
(***************************************************************************)
\* the value an argument vector gives after the flag, dflt when the flag is
\* not in it (the flags follow the eight leading arguments)
FlagValue(a, flag, dflt) ==
    IF \E i \in {9, 11} : i < Len(a) /\ a[i] = flag
    THEN a[(CHOOSE i \in {9, 11} : i < Len(a) /\ a[i] = flag) + 1]
    ELSE dflt

\* C17: every --say invocation, from /api/synthesize or from /synthesis with
\* either shape of body, runs with a speed in 50..200 and a pitch in
\* -50..50, an omitted flag standing for 100 and 0
C17_SayInRange ==
    SayInvoked =>
        \A k \in 1..Len(run.say) :
            /\ FlagValue(run.say[k], "--speed", 100) \in 50..200
            /\ FlagValue(run.say[k], "--pitch", 0) \in -50..50

(***************************************************************************)
(* Properties of the failed emotion listings (checked under SpecCatalog)   *)
(***************************************************************************)
\* --list-emotion fails for the narrator
ListingFails(narrator) == ~safeExec(EmotionAnswer(narrator)).ok

\* the emotions --list-emotion gives for the narrator
EmotionsListed(narrator) == ParseLines(safeExec(EmotionAnswer(narrator)).value)

\* the ids a narrator takes up: one when its listing fails, one per emotion
\* otherwise
IdsTaken(narrator) ==
    IF ListingFails(narrator) THEN 1 ELSE Len(EmotionsListed(narrator))

RECURSIVE CounterAt(_, _)
\* the counter when the k-th narrator of the list is reached
CounterAt(narrators, k) ==
    IF k = 1 THEN BASE_SPEAKER_ID
    ELSE CounterAt(narrators, k - 1) + IdsTaken(narrators[k - 1])

\* the narrators --list-narrator gives
NarratorsListed == ParseLines(safeExec(listNarrator).value)

\* C18: GET /speakers lists every narrator of the catalog; a narrator whose
\* emotion listing fails has exactly one style, with the default label and
\* the counter as id, and takes up exactly one id; every other narrator has
\* its own emotions as styles, numbered from the counter on
C18_FailedListingFallback ==
    SpeakersAnswered =>
        LET sp == resp.body.speakers
        IN  /\ Len(sp) = Len(NarratorsListed)
            /\ \A k \in 1..Len(sp) :
                   LET narrator == NarratorsListed[k]
                       base == CounterAt(NarratorsListed, k)
                   IN  /\ sp[k].name = narrator
                       /\ IF ListingFails(narrator)
                          THEN sp[k].styles = <<[name |-> DEFAULT_STYLE_LABEL, id |-> base]>>
                          ELSE /\ Len(sp[k].styles) = Len(EmotionsListed(narrator))
                               /\ \A i \in 1..Len(sp[k].styles) :
                                      sp[k].styles[i]
                                        = [name |-> EmotionsListed(narrator)[i],
                                           id |-> base + (i - 1)]

\* a list of two speakers: the first with two styles, the second with the
\* substitute style of a failed listing at the third id
C18_Witness ==
    /\ SpeakersAnswered
    /\ Len(resp.body.speakers) = 2
    /\ Len(resp.body.speakers[1].styles) = 2
    /\ ListingFails(resp.body.speakers[2].name)
    /\ resp.body.speakers[2].styles
         = <<[name |-> DEFAULT_STYLE_LABEL, id |-> BASE_SPEAKER_ID + 2]>>

\* C19: the resolver keeps exactly one counter value for a narrator whose
\* emotion listing fails: asked for that value it returns the narrator with
\* the default emotion, and the ids of the other narrators resolve to the
\* narrator and emotion that the counter of the catalog, built under the
\* same failures, gives them
C19_WalkReservesOne ==
    Resolved =>
        \A k \in 1..Len(NarratorsListed) :
            LET narrator == NarratorsListed[k]
                base == CounterAt(NarratorsListed, k)
            IN  IF ListingFails(narrator)
                THEN req.speaker.n = base => run.info = Found(narrator, DEFAULT_EMOTION)
                ELSE \A i \in 1..Len(EmotionsListed(narrator)) :
                        req.speaker.n = base + (i - 1)
                            => run.info = Found(narrator, EmotionsListed(narrator)[i])

\* the listing of the first narrator fails, and the second id resolves to
\* the first emotion of the second narrator
C19_Witness ==
    /\ Resolved
    /\ Len(NarratorsListed) = 2
    /\ ListingFails(NarratorsListed[1])
    /\ ~ListingFails(NarratorsListed[2])
    /\ req.speaker.n = BASE_SPEAKER_ID + 1
    /\ run.info.found
    /\ run.info.narrator = NarratorsListed[2]
    /\ run.info.emotion = EmotionsListed(NarratorsListed[2])[1]

(***************************************************************************)
(* Properties of safeExec (checked under SpecExec)                         *)
(***************************************************************************)
\* what a settled call gave, as the handlers see it
ExecResult ==
    [ok |-> proc.promise = "resolved", value |-> proc.value, message |-> proc.message]

\* the call resolved only after a close with exit code 0, with the trimmed
\* stdout; a close with another code and a spawn error leave it rejected;
\* the timer that finds the process running kills it and leaves the call
\* rejected with the timeout Error
C20_Outcomes ==
    /\ proc.promise = "resolved" =>
           /\ proc.child = "closed" /\ proc.code = 0
           /\ ExecResult = safeExec(ExecAnswer("ok", proc.stdout, proc.stderr))
    /\ (proc.child = "closed" /\ proc.code # 0) => proc.promise = "rejected"
    /\ (proc.child = "closed" /\ proc.code # 0 /\ proc.timer = "armed") =>
           ExecResult = safeExec(ExecAnswer("exit", <<>>, proc.stderr))
    /\ proc.child = "failed" =>
           ExecResult = safeExec(ExecAnswer("spawn", <<>>, <<>>))
    /\ (proc.timer = "fired" /\ proc.killed) =>
           ExecResult = safeExec(ExecAnswer("timeout", <<>>, <<>>))
    /\ proc.timer = "fired" => proc.promise \in {"resolved", "rejected"}

\* C20: every call of safeExec settles: it resolves with the trimmed stdout
\* only on exit code 0, rejects on another exit code and on a spawn error,
\* and when the process has not closed COMMAND_EXECUTION after the spawn the
\* process is killed and the call rejects with the timeout Error; no call
\* stays pending for ever
C20_Settles ==
    /\ []C20_Outcomes
    /\ (proc.promise = "pending") ~> (proc.promise \in {"resolved", "rejected"})

\* a process that never ends by itself was killed by the timer and the call
\* was rejected with the timeout Error
C20_Witness ==
    /\ proc.plan = "hang"
    /\ proc.timer = "fired" /\ proc.killed
    /\ proc.promise = "rejected"
    /\ proc.message = <<"CommandTimeout">>

(***************************************************************************)
(* Properties of the temp file (checked under SpecJobs)                    *)
(***************************************************************************)
\* the request was answered with the audio
AudioSent(j) == jobs[j].pc = "returned"

\* what holds of every request answered with the audio: the file was looked
\* up, read, sent and handed to fs.unlink in this order, and the body sent
\* is what was read
ReadSentDeleted(j) ==
    /\ jobs[j].trace = <<"existsSync", "readFileSync", "send", "unlink">>
    /\ jobs[j].unlink \in {"pending", "done", "failed"}
    /\ jobs[j].resp.status = 200
    /\ jobs[j].resp.body.data = <<"bytes", jobs[j].wavBuffer>>
    /\ jobs[j].unlink = "done" => files[jobs[j].outputPath] = 0

\* the callback of fs.unlink leaves the response as it was sent
UnlinkKeepsResponse ==
    \A j \in JobIds :
        jobs[j].unlink = "pending" =>
            /\ jobs'[j].resp = jobs[j].resp
            /\ jobs'[j].sent = jobs[j].sent

\* C21: on every successful synthesis the temp file is read, then the
\* response is sent, then the deletion of that file is initiated; the
\* deletion always completes or fails after the read, and a failure is only
\* logged: the status and the body of the response stay as they were sent
C21_ReadSendDelete ==
    /\ [](\A j \in JobIds : AudioSent(j) => ReadSentDeleted(j))
    /\ [][UnlinkKeepsResponse]_vars
    /\ \A j \in JobIds :
          (jobs[j].unlink = "pending") ~> (jobs[j].unlink \in {"done", "failed"})

\* a synthesis answered with the audio whose file could not be deleted
C21_Witness ==
    \E j \in JobIds :
        /\ AudioSent(j)
        /\ jobs[j].unlink = "failed"
        /\ files[jobs[j].outputPath] = j

\* the request has generated its output path
Started(j) == jobs[j].pc # "idle"

\* requests in flight together never share an output path, and the audio a
\* request read and sent is what its own invocation of the binary wrote
OwnFileOnly ==
    /\ \A j, k \in JobIds :
          Started(j) /\ Started(k) /\ j # k
              => jobs[j].outputPath # jobs[k].outputPath
    /\ \A j \in JobIds :
          AudioSent(j) => /\ jobs[j].wavBuffer = j
                          /\ jobs[j].resp.body.data = <<"bytes", j>>

\* a file that disappears is the one written for the request whose fs.unlink
\* completed in this step
DeletesOwnFile ==
    \A f \in TempPaths :
        files[f] # 0 /\ files'[f] = 0 =>
            \E j \in JobIds : /\ jobs[j].outputPath = f
                              /\ files[f] = j
                              /\ jobs[j].unlink = "pending"
                              /\ jobs'[j].unlink = "done"

\* C22: under any interleaving of concurrent synthesis requests each
\* request uses its own output path and none reads, returns or deletes the
\* temp file of another: the audio a client receives is what the binary
\* wrote for that client's own invocation
C22_OwnTempFile == []OwnFileOnly /\ [][DeletesOwnFile]_vars

\* two requests in flight together, both answered with audio, the file of
\* the later one already deleted while the earlier one's is still there
C22_Witness ==
    /\ AudioSent(1) /\ AudioSent(2)
    /\ jobs[1].unlink = "pending" /\ jobs[2].unlink = "done"
    /\ files[jobs[1].outputPath] = 1

(***************************************************************************)
(* Properties of VoiceVoxAdapter.synthesize (checked under SpecAdapter)    *)
(***************************************************************************)
\* the names of the requests an operation issued, in order
RECURSIVE CallNames(_)
CallNames(calls) ==
    IF calls = <<>> THEN <<>> ELSE <<Head(calls)[1]>> \o CallNames(Tail(calls))

SynthesizeOrder == <<"speakers", "audio_query", "synthesis">>

Synthesized == remote.op = "synthesize"

\* the fault of the engine struck a request the operation issued
FaultStruck ==
    /\ remote.fault # "none"
    /\ \E i \in 1..Len(remote.calls) : remote.calls[i][1] = remote.at

\* C23: synthesize issues GET /speakers, POST /audio_query, POST /synthesis
\* in this order; when one of them fails the operation rejects and issues
\* no later request, the local binary is never used instead, and audio is
\* returned only when all three requests succeeded
C23_CallSequence ==
    Synthesized =>
        /\ \E n \in 1..3 : CallNames(remote.calls) = SubSeq(SynthesizeOrder, 1, n)
        /\ FaultStruck =>
              /\ ~remote.ok
              /\ remote.calls[Len(remote.calls)][1] = remote.at
        /\ ~LocalUsed
        /\ remote.audio = remote.ok
        /\ remote.audio =>
              /\ CallNames(remote.calls) = SynthesizeOrder
              /\ ~FaultStruck

\* a synthesis whose POST /audio_query failed: two requests were issued
C23_Witness ==
    /\ Synthesized
    /\ remote.fault = "500" /\ remote.at = "audio_query"
    /\ Len(remote.calls) = 2
    /\ ~remote.ok

\* the speaker of the engine named by the call, 0 when there is none
NamedSpeaker ==
    IF remote.narrator # "" THEN FindSpeaker(remote.speakers, remote.narrator)
    ELSE IF Len(remote.speakers) > 0 THEN 1 ELSE 0

\* the listing of the speakers succeeded
SpeakersAvailable == ~(remote.fault # "none" /\ remote.at = "speakers")

\* the named emotion is none of the styles of the named narrator
EmotionUnmatched ==
    /\ remote.emotion # ""
    /\ NamedSpeaker # 0
    /\ \A i \in 1..Len(remote.speakers[NamedSpeaker].styles) :
          remote.speakers[NamedSpeaker].styles[i].name # remote.emotion

\* C30: when the named narrator is not in the remote speaker list,
\* synthesize fails before any audio_query or synthesis request; when the
\* narrator exists and the named emotion matches none of its styles, the
\* operation goes on with the id of the narrator's first style
C30_NarratorAndEmotion ==
    (Synthesized /\ SpeakersAvailable) =>
        /\ (remote.narrator # "" /\ NamedSpeaker = 0) =>
              /\ ~remote.ok
              /\ CallNames(remote.calls) = <<"speakers">>
              /\ Includes(remote.message, "NarratorNotFound")
        /\ EmotionUnmatched =>
              /\ ~Includes(remote.message, "NarratorNotFound")
              /\ remote.text # "" =>
                    /\ Len(remote.calls) >= 2
                    /\ remote.calls[2][2] =
                          <<remote.speakers[NamedSpeaker].styles[1].id>>
              /\ (remote.text # "" /\ remote.fault = "none") => remote.ok

\* a synthesis for the second narrator with an emotion it does not have,
\* answered with audio made for the narrator's first style
C30_Witness ==
    /\ Synthesized
    /\ remote.narrator = "s2" /\ remote.emotion = "sad"
    /\ Len(remote.speakers) = 2
    /\ remote.audio
    /\ remote.calls[3][2] = <<2>>

(***************************************************************************)
(* Properties of the audio query (checked under Spec and SpecRoundTrip)    *)
(***************************************************************************)
\* /audio_query answered with an audio query
AudioQueryAnswered ==
    /\ phase = "done"
    /\ req.ep = "audio_query"
    /\ resp.status = 200
    /\ resp.body.kind = "audio_query"

RoundTripPosted ==
    /\ phase = "done"
    /\ held.given
    /\ req = RoundTripRequest(held)
    /\ Admitted

\* C25: for every text /audio_query accepts, posting the returned audio
\* query unchanged to /synthesis with the same speaker normalizes to the
\* same text, speed 100 and pitch 0, and the binary is invoked with that
\* text and with neither --speed nor --pitch
C25_RoundTrip ==
    RoundTripPosted =>
        /\ run.norm = Params(held.text, 100, 0)
        /\ Len(run.say) = 1
        /\ run.say[1][1] = "--say" /\ run.say[1][2] = held.text
        /\ Len(run.say[1]) = 8
        /\ FlagValue(run.say[1], "--speed", 100) = 100
        /\ FlagValue(run.say[1], "--pitch", 0) = 0

\* the audio query of the text "a?" came back and the binary spoke "a?"
C25_Witness ==
    /\ RoundTripPosted
    /\ held.text = <<"a", "?">>
    /\ resp.status = 200
    /\ run.say[1][2] = <<"a", "?">>

(***************************************************************************)
(* Properties of the handlers as a whole (checked under Spec)              *)
(***************************************************************************)
\* the budget of a request: that of its method
BudgetOf(rq) ==
    IF Method(rq) = "POST" THEN RATE_LIMIT_POST_REQUESTS ELSE RATE_LIMIT_GET_REQUESTS

\* the timestamps stored for ip that are less than a window old
StoredInWindow(ip) ==
    LET Valid(time) == time > now - RATE_LIMIT_WINDOW_MS
    IN  SelectSeq(rateLimiter[ip], Valid)

\* a handler ran in this step
Handled == phase = "idle" /\ phase' = "done" /\ req'.syntax = "json"

\* a handler ran for a client whose stored timestamps fill the budget: the
\* answer is 429, nothing else was looked at or run, and the store is as it
\* was
RejectedFirst ==
    (Handled /\ Len(StoredInWindow(req'.ip)) >= BudgetOf(req')) =>
        /\ resp'.status = 429
        /\ Includes(run'.thrown, "RateLimit")
        /\ ~run'.looked /\ run'.say = <<>>
        /\ rateLimiter' = rateLimiter
        /\ uuidNext' = uuidNext /\ disk' = disk

\* a handler that threw the rate-limit Error ran for such a client
RejectedOnlyWhenFull ==
    (Handled /\ Includes(run'.thrown, "RateLimit")) =>
        Len(StoredInWindow(req'.ip)) >= BudgetOf(req')

\* C26: the rate-limit check is the first step of every endpoint: a request
\* rejected by checkRateLimit is answered 429, spawns no external process
\* and leaves the stored timestamps of every client unchanged
C26_RejectedFrame == [][RejectedFirst /\ RejectedOnlyWhenFull]_vars

\* a request with no text was rejected by the limiter, not by validation,
\* and the store still holds the one timestamp of the request before it
C26_Witness ==
    /\ phase = "done"
    /\ req.ep = "synthesize" /\ req.text = Absent
    /\ resp.status = 429
    /\ rateLimiter[req.ip] = <<0>>
    /\ ~run.looked /\ run.say = <<>>

(***************************************************************************)
(* Responses and leftovers of a synthesis (checked under SpecJobs)         *)
(***************************************************************************)
\* the handler of the request has run to its end
HandlerEnded(j) == jobs[j].pc \in {"answered", "returned"}

\* no request has two responses, and a handler that ended has sent one
OneResponseAtMost ==
    \A j \in JobIds :
        /\ jobs[j].sent <= 1
        /\ HandlerEnded(j) <=> jobs[j].sent = 1

\* a response once sent stays the response of the request
ResponseStays ==
    \A j \in JobIds :
        jobs[j].sent = 1 => jobs'[j].sent = 1 /\ jobs'[j].resp = jobs[j].resp

\* C27: every request handler sends exactly one HTTP response on every
\* path, never none and never two, also when the binary times out and the
\* killed process closes afterwards and when the deletion of the temp file
\* fails after the audio was sent
C27_ExactlyOneResponse ==
    /\ []OneResponseAtMost
    /\ [][ResponseStays]_vars
    /\ \A j \in JobIds : Started(j) ~> (jobs[j].sent = 1)

\* a request whose binary timed out, was killed and closed afterwards, next
\* to a request answered with audio whose file could not be deleted
C27_Witness ==
    /\ jobs[1].plan = "timeout" /\ jobs[1].child = "closed"
    /\ jobs[1].timer = "fired" /\ jobs[1].sent = 1
    /\ jobs[2].unlink = "failed" /\ jobs[2].sent = 1

\* C28: no temp file of a finished request remains on disk: whenever a
\* synthesis request has ended, with audio or with an error (also when the
\* binary wrote its --out file and then exited non-zero or was killed on
\* timeout), and no deletion of its file is under way or has failed, the
\* file at its output path is gone
C28_NoLeftover ==
    \A j \in JobIds :
        (HandlerEnded(j) /\ jobs[j].unlink \in {"none", "done"})
            => files[jobs[j].outputPath] = 0

(***************************************************************************)
(* The two implementations side by side (checked under Spec)               *)
(***************************************************************************)
\* what a client and the binary see of a handled request
Observed(h, rq) ==
    [status |-> h.resp.status,
     ids |-> IF rq.ep = "speakers" /\ h.resp.status = 200
             THEN StyleIds(h.resp.body.speakers) ELSE <<>>,
     info |-> h.run.info,
     say |-> h.run.say]

\* the request handled in this step, run through the handler of index.js and
\* through the refactored one from the same state with the same outcome of
\* the binary, is observed alike
SameObserved ==
    Handled =>
        Observed(HandlerOf("inline", req', run'.outcome, run'.outcome.unlinkOk), req')
            = Observed(HandlerOf("router", req', run'.outcome, run'.outcome.unlinkOk),
                       req')

\* C29: the inline handlers of index.js and the refactored handlers are
\* observationally equivalent: for the same catalog, the same binary
\* outcomes and the same request they assign the same style ids, resolve
\* the same narrator and emotion, pass the same arguments to the binary and
\* answer with the same HTTP status
C29_Equivalent == [][SameObserved]_vars

\* status aside, the two implementations are observed alike: the same style
\* ids, the same narrator and emotion, the same arguments to the binary
SameButStatus ==
    Handled =>
        [Observed(HandlerOf("inline", req', run'.outcome, run'.outcome.unlinkOk), req')
            EXCEPT !.status = 0]
        = [Observed(HandlerOf("router", req', run'.outcome, run'.outcome.unlinkOk), req')
            EXCEPT !.status = 0]

C29_SameButStatus == [][SameButStatus]_vars

====
